---- MODULE Spec2Model ----
(***************************************************************************)
(* Model of the generation pipeline of the EDCoPilot custom conversation   *)
(* refresher: the provider failover client (src/src/utils/api_client.py,   *)
(* src/src/config.py) and the personalization context builder with its     *)
(* on-disk feed cache (src/src/utils/personalization.py).                  *)
(*                                                                         *)
(* Strings the code inspects character by character (provider replies,     *)
(* feed URLs, cache file names) are sequences of one-character strings.    *)
(* Time is counted in hours.                                               *)
(***************************************************************************)
EXTENDS Integers, Sequences, FiniteSets, TLC

\* ------------------------------------------------------------------ bounds
\* largest max_retries argument passed to APIClient.generate_content
MaxRetries == 2
\* the clock stops advancing here
MaxTime == 8
\* number of entries a remote feed serves when it serves any
MaxFeedEntries == 11

\* ------------------------------------------------------- program constants
\* Config.MAX_RETRIES (default of the MAX_RETRIES environment variable)
MAX_RETRIES == 3
\* PersonalizationManager.cache_duration, timedelta(hours=8)
cache_duration == 8
\* fetch_rss_content(default_max_entries=10)
default_max_entries == 10
\* the exponential backoff base of time.sleep(2 ** attempt)
BackoffBase == 2

\* hours added by one Tick of the clock: half the cache duration, so that an
\* entry is read at ages 0, 4 and 8 hours
TickHours == cache_duration \div 2

\* Python's None where a string is expected, and where an int is expected
None == <<"<None>">>
NoneInt == -1

Providers == {"OPENAI", "ANTHROPIC"}

\* ----------------------------------------------------------------- helpers
Min(a, b) == IF a < b THEN a ELSE b

RECURSIVE Pow(_, _)
Pow(b, n) == IF n = 0 THEN 1 ELSE b * Pow(b, n - 1)

\* s[:n] for n >= 0
Take(s, n) == SubSeq(s, 1, Min(n, Len(s)))

Range(s) == {s[i] : i \in 1..Len(s)}

IsSpace(c) == c \in {" ", "\t", "\n", "\r"}

RECURSIVE lstrip(_)
lstrip(s) == IF s = <<>> THEN <<>>
             ELSE IF IsSpace(Head(s)) THEN lstrip(Tail(s)) ELSE s

RECURSIVE rstrip(_)
rstrip(s) == IF s = <<>> THEN <<>>
             ELSE IF IsSpace(s[Len(s)]) THEN rstrip(SubSeq(s, 1, Len(s) - 1)) ELSE s

\* a reply used as it came, without trimming
strip_Missing(s) == s

\* str.strip()
strip(s) == rstrip(lstrip(s))

\* ------------------------------------------------------------------- state
VARIABLES
  OPENAI_API_KEY,      \* Config.OPENAI_API_KEY is set (non-empty)
  ANTHROPIC_API_KEY,   \* Config.ANTHROPIC_API_KEY is set (non-empty)
  PREFERRED_PROVIDER,  \* Config.PREFERRED_PROVIDER
  openai_client,       \* APIClient.openai_client is not None
  anthropic_client,    \* APIClient.anthropic_client is not None
  pc,                  \* position of the running generate_content call
  call_args,           \* arguments of the current/last generate_content call
  max_retries,         \* its effective max_retries
  provider_order,      \* its provider_order
  provider_idx,        \* index of the provider the loop is at
  attempt,             \* loop variable of _generate_openai/_generate_anthropic
  api_log,             \* provider calls and backoff sleeps of the call, in order
  result,              \* value returned by the last generate_content
  exc,                 \* an exception escaped the last operation
  context_data,        \* PersonalizationManager.context_data (section names)
  rss_feeds,           \* PersonalizationManager.rss_feeds
  cache_dir,           \* the files of cache_dir: name -> [mtime, corrupt, data]
  now,                 \* wall clock, hours
  op,                  \* the last operation
  rss_content,         \* value returned by the last fetch_rss_content
  fetch_log,           \* what the last fetch_rss_content logged, per feed
  context,             \* value returned by the last get_personalization_context
  cleared,             \* argument of the last clear_rss_cache
  chatter_type,        \* BaseGenerator.chatter_type of the generator that ran last
  new_content,         \* the generated text its generate_content returned
  processed_content,   \* value returned by the last _process_content
  files,               \* the destination files: output_file -> [content, mtime]
  backups,             \* the files of backup_dir: <<output_file, timestamp>> -> [content, mtime]
  deploy_args,         \* arguments of the last FileManager/deployment call
  success,             \* value the last FileManager/deployment call returned
  deploy_log,          \* what the file operations of that call logged, in order
  runs,                \* number of FileManager/deployment calls made so far
  specific_files,      \* the specific_files argument of EDCopilotUpdater.run
  setup_valid,         \* what validate_setup returned in that run
  results,             \* the results dict of that run: file type -> bool
  run_log,             \* the file types the run went through, with what
                       \* process_and_deploy did for each, in order
  run_result           \* value EDCopilotUpdater.run returned

vars == <<OPENAI_API_KEY, ANTHROPIC_API_KEY, PREFERRED_PROVIDER, openai_client,
          anthropic_client, pc, call_args, max_retries, provider_order,
          provider_idx, attempt, api_log, result, exc, context_data, rss_feeds,
          cache_dir, now, op, rss_content, fetch_log, context, cleared,
          chatter_type, new_content, processed_content, files, backups,
          deploy_args, success, deploy_log, runs, specific_files, setup_valid,
          results, run_log, run_result>>

config_vars == <<OPENAI_API_KEY, ANTHROPIC_API_KEY, PREFERRED_PROVIDER,
                 openai_client, anthropic_client>>
call_vars == <<pc, call_args, max_retries, provider_order, provider_idx,
               attempt, api_log, result>>
personalization_vars == <<context_data, rss_feeds>>
fetch_vars == <<rss_content, fetch_log, context, cleared>>
normalizer_vars == <<chatter_type, new_content, processed_content>>
deploy_vars == <<files, backups, deploy_args, success, deploy_log, runs>>
run_vars == <<specific_files, setup_valid, results, run_log, run_result>>

\* the empty dict
EmptyDict == <<>>

\* the shape of the state
TypeOK ==
  /\ OPENAI_API_KEY \in BOOLEAN /\ ANTHROPIC_API_KEY \in BOOLEAN
  /\ openai_client \in BOOLEAN /\ anthropic_client \in BOOLEAN
  /\ PREFERRED_PROVIDER \in STRING
  /\ pc \in {"idle", "provider", "attempt"}
  /\ call_args.max_retries \in Int
  /\ max_retries \in Nat /\ provider_idx \in Nat /\ attempt \in Nat
  /\ \A i \in 1..Len(provider_order) : provider_order[i] \in Providers
  /\ \A i \in 1..Len(api_log) : api_log[i].kind \in {"call", "sleep"}
  /\ exc \in BOOLEAN
  /\ context_data \subseteq STRING
  /\ \A i \in 1..Len(rss_feeds) : rss_feeds[i].max_entries \in Int
  /\ \A f \in DOMAIN cache_dir :
       cache_dir[f].mtime \in 0..now /\ cache_dir[f].corrupt \in BOOLEAN
  /\ now \in 0..MaxTime
  /\ op \in STRING
  /\ \A u \in DOMAIN rss_content : Len(rss_content[u]) <= MaxFeedEntries
  /\ \A i \in 1..Len(fetch_log) :
       fetch_log[i].source \in {"cache", "error", "fetched", "nothing"}
  /\ context.sections \subseteq STRING
  /\ chatter_type \in STRING
  /\ \A f \in DOMAIN files : files[f].mtime \in 0..now
  /\ \A b \in DOMAIN backups : b[1] \in DOMAIN files /\ b[2] \in 0..now
  /\ deploy_args.max_lines \in Nat /\ deploy_args.merge_existing \in BOOLEAN
  /\ success \in BOOLEAN
  /\ \A i \in 1..Len(deploy_log) :
       deploy_log[i] \in {"backup_created", "backup_failed", "read_failed",
                          "written", "write_failed", "restored", "no_backups",
                          "rollback_failed"}
  /\ runs \in Nat
  /\ \A i \in 1..Len(specific_files) : specific_files[i] \in STRING
  /\ setup_valid \in BOOLEAN
  /\ \A k \in DOMAIN results : results[k] \in BOOLEAN
  /\ \A i \in 1..Len(run_log) :
       run_log[i].outcome \in {"true", "false", "raise", "unknown"}
  /\ run_result \in BOOLEAN

\* ------------------------------------------------- config.py, api_client.py
\* a provider order that ignores the preference
get_provider_order_Fixed(preferred) == <<"OPENAI", "ANTHROPIC">>

\* Config.get_provider_order
get_provider_order(preferred) ==
  IF preferred = "OPENAI" THEN <<"OPENAI", "ANTHROPIC">>
  ELSE <<"ANTHROPIC", "OPENAI">>

\* APIClient._initialize_clients: a client exists iff its key is set
initialize_clients(key) == key

\* the `provider == ... and self.<provider>_client` tests of generate_content
client_configured(provider) ==
  \/ provider = "OPENAI" /\ openai_client
  \/ provider = "ANTHROPIC" /\ anthropic_client

\* a retry loop that runs one iteration too many
range_continues_OffByOne(k, n) == k + 1 <= n

\* `for attempt in range(max_retries)`: is there an iteration after attempt k
range_continues(k, n) == k + 1 < n

\* lines 108-111 / 133-136: the sleep sits in the except branch only, and is
\* skipped after the last attempt
backoff_due(raised, k, n) == raised /\ k < n - 1

\* what a provider call can do: raise, or reply with a text
ReplyTexts == {<<>>, <<" ">>, <<" ", "o", "k", " ">>}
Responses == {[raised |-> TRUE, text |-> <<>>]}
             \cup {[raised |-> FALSE, text |-> t] : t \in ReplyTexts}
\* the reply drawn while the feed cache is explored
FewResponses == {[raised |-> FALSE, text |-> <<" ", "o", "k", " ">>]}

CallEvent(p, k, r) ==
  [kind |-> "call", provider |-> p, attempt |-> k, raised |-> r.raised,
   text |-> r.text, seconds |-> 0]
SleepEvent(p, k) ==
  [kind |-> "sleep", provider |-> p, attempt |-> k, raised |-> FALSE,
   text |-> <<>>, seconds |-> Pow(BackoffBase, k)]

\* ------------------------------------------------------- personalization.py
\* the feed URLs of the personalization files explored
UrlNews == <<"h", ":", "/", "n">>
UrlBlog == <<"h", ":", "/", "b">>
Urls == {UrlNews, UrlBlog}

\* the characters [\w\-_.] keeps, among those the URLs are written with
WordChars == {"a", "b", "h", "n", "0", "1", "_"}
SafeChar(c) == c \in WordChars \cup {"-", "_", "."}

\* PersonalizationManager._get_cache_file_path:
\* re.sub(r'[^\w\-_.]', '_', feed_url) between "rss_cache_" and ".pkl"
get_cache_file_path(feed_url) ==
  <<"rss_cache_">>
  \o [i \in 1..Len(feed_url) |->
        IF SafeChar(feed_url[i]) THEN feed_url[i] ELSE "_"]
  \o <<".pkl">>

\* a freshness test no entry passes: every read goes to the network
is_cache_valid_Never(dir, cache_file, t) == FALSE

\* a freshness test that still accepts an entry aged exactly cache_duration
is_cache_valid_Inclusive(dir, cache_file, t) ==
  /\ cache_file \in DOMAIN dir
  /\ t - dir[cache_file].mtime <= cache_duration

\* PersonalizationManager._is_cache_valid
is_cache_valid(dir, cache_file, t) ==
  /\ cache_file \in DOMAIN dir
  /\ t - dir[cache_file].mtime < cache_duration

EmptyData == [entries |-> <<>>, fetched_at |-> 0, max_entries |-> 0]
NoData == [ok |-> FALSE, data |-> EmptyData]

\* PersonalizationManager._load_cached_rss: None when the file is missing or
\* stale, and when unpickling it fails (the except branch)
load_cached_rss(dir, feed_url, t) ==
  LET cache_file == get_cache_file_path(feed_url) IN
    IF ~is_cache_valid(dir, cache_file, t) THEN NoData
    ELSE IF dir[cache_file].corrupt THEN NoData
    ELSE [ok |-> TRUE, data |-> dir[cache_file].data]

\* how a cache write can end: done, open() fails (file untouched), or
\* pickle.dump fails after open(..., 'wb') truncated the file
SaveOutcomes == {"ok", "open_fails", "dump_fails"}

\* PersonalizationManager._save_rss_cache; every failure is caught and logged
save_rss_cache(dir, feed_url, rss_data, t, outcome) ==
  LET cache_file == get_cache_file_path(feed_url) IN
    CASE outcome = "ok" ->
           (cache_file :> [mtime |-> t, corrupt |-> FALSE, data |-> rss_data]) @@ dir
      [] outcome = "dump_fails" ->
           (cache_file :> [mtime |-> t, corrupt |-> TRUE, data |-> EmptyData]) @@ dir
      [] OTHER -> dir

\* what feedparser.parse can do for one feed: raise, or give its entries
RemoteOutcomes == {"raise", "empty", "full"}
RemoteEntries(outcome) ==
  IF outcome = "full" THEN [i \in 1..MaxFeedEntries |-> i] ELSE <<>>

\* the environment of one fetch_rss_content call: what the fetch of each feed
\* does and, where it serves entries, how the cache write of that feed ends
Envs == {e \in [remote : [Urls -> RemoteOutcomes], save : [Urls -> SaveOutcomes]] :
           \A u \in Urls : e.remote[u] # "full" => e.save[u] = "ok"}

\* feed_info.get('max_entries', default): the key is always present
\* (_extract_rss_feed_info sets it, to None when the line has no [n])
feed_max_entries(feed_info, default) ==
  IF "max_entries" \in DOMAIN feed_info THEN feed_info.max_entries ELSE default

\* fetch_rss_content lines 195-197
cached_entries_of(cached_data, max_entries) ==
  IF max_entries # NoneInt THEN Take(cached_data.entries, max_entries)
  ELSE cached_data.entries

\* a fetch loop that stops at the first feed whose fetch raises
fetch_error_caught_Never(outcome) == FALSE

\* lines 203/240: the try around the fresh fetch catches every Exception
fetch_error_caught(outcome) == outcome = "raise"

FeedEvent(url, source, load_failed, save_failed) ==
  [url |-> url, source |-> source, load_failed |-> load_failed,
   save_failed |-> save_failed]

\* one iteration of the `for feed_info in self.rss_feeds` loop, lines 186-241
\* st = [rss_content, cache_dir, fetch_log, exc]
fetch_one(feed_info, st, t, env, default) ==
  LET feed_url == feed_info.url
      max_entries == feed_max_entries(feed_info, default)
      cache_file == get_cache_file_path(feed_url)
      cached_data == load_cached_rss(st.cache_dir, feed_url, t)
      load_failed == is_cache_valid(st.cache_dir, cache_file, t) /\ ~cached_data.ok
      outcome == env.remote[feed_url]
      entry_limit == IF max_entries # NoneInt THEN max_entries ELSE default
      entries == Take(RemoteEntries(outcome), entry_limit)
      cache_data == [entries |-> entries, fetched_at |-> t,
                     max_entries |-> entry_limit]
  IN
    IF cached_data.ok THEN
      [st EXCEPT !.rss_content =
                   (feed_url :> cached_entries_of(cached_data.data, max_entries)) @@ @,
                 !.fetch_log = Append(@, FeedEvent(feed_url, "cache", FALSE, FALSE))]
    ELSE IF outcome = "raise" THEN
      [st EXCEPT !.fetch_log = Append(@, FeedEvent(feed_url, "error", load_failed, FALSE)),
                 !.exc = ~fetch_error_caught(outcome)]
    ELSE IF entries # <<>> THEN
      [st EXCEPT !.rss_content = (feed_url :> entries) @@ @,
                 !.cache_dir = save_rss_cache(@, feed_url, cache_data, t, env.save[feed_url]),
                 !.fetch_log = Append(@, FeedEvent(feed_url, "fetched", load_failed,
                                                   env.save[feed_url] # "ok"))]
    ELSE
      [st EXCEPT !.fetch_log = Append(@, FeedEvent(feed_url, "nothing", load_failed, FALSE))]

RECURSIVE fetch_loop(_, _, _, _, _, _)
fetch_loop(i, feeds, st, t, env, default) ==
  IF i > Len(feeds) \/ st.exc THEN st
  ELSE fetch_loop(i + 1, feeds, fetch_one(feeds[i], st, t, env, default), t, env, default)

\* PersonalizationManager.fetch_rss_content
fetch_rss_content(feeds, dir, t, env, default) ==
  fetch_loop(1, feeds,
             [rss_content |-> EmptyDict, cache_dir |-> dir, fetch_log |-> <<>>,
              exc |-> FALSE],
             t, env, default)

NoContext == [sections |-> {}, news |-> EmptyDict]

\* a context builder that fetches the feeds whether asked to or not
get_personalization_context_AlwaysRss(data, feeds, dir, t, env, include_rss, include_web) ==
  LET fetched == fetch_rss_content(feeds, dir, t, env, default_max_entries)
  IN [context |-> [sections |-> data, news |-> fetched.rss_content],
      fetched |-> fetched]

\* PersonalizationManager.get_personalization_context: the static sections,
\* then the feed entries when asked for and feeds are configured.  The
\* personalization files explored name no URL outside their feed lines, so the
\* web part fetches nothing.
get_personalization_context(data, feeds, dir, t, env, include_rss, include_web) ==
  LET fetched == IF include_rss /\ feeds # <<>>
                 THEN fetch_rss_content(feeds, dir, t, env, default_max_entries)
                 ELSE [rss_content |-> EmptyDict, cache_dir |-> dir,
                       fetch_log |-> <<>>, exc |-> FALSE]
  IN [context |-> IF fetched.exc THEN NoContext
                  ELSE [sections |-> data, news |-> fetched.rss_content],
      fetched |-> fetched]

\* a feed line of the "RSS Feeds" section: "[n] url" or "url"
FeedLine(bracket, n, url) == [bracket |-> bracket, n |-> n, url |-> url]

\* PersonalizationManager._extract_rss_feed_info
extract_rss_feed_info(line) ==
  IF line.bracket THEN [url |-> line.url, max_entries |-> line.n]
  ELSE [url |-> line.url, max_entries |-> NoneInt]

\* the personalization.md files explored: missing, and two contents
PersonalizationFiles ==
  { [exists |-> FALSE, sections |-> {}, feed_lines |-> <<>>],
    [exists |-> TRUE, sections |-> {"Data", "Themes"},
     feed_lines |-> <<FeedLine(FALSE, 0, UrlNews), FeedLine(TRUE, 1, UrlBlog)>>],
    [exists |-> TRUE, sections |-> {"Data", "Conversation Styles"},
     feed_lines |-> <<FeedLine(TRUE, MaxFeedEntries, UrlNews),
                      FeedLine(FALSE, 0, UrlBlog)>>] }

\* PersonalizationManager._parse_personalization_content: the sections with
\* lines (the feed lines are lines of the "RSS Feeds" section) and the feeds
parse_sections(file) ==
  file.sections \cup (IF file.feed_lines # <<>> THEN {"RSS Feeds"} ELSE {})
parse_feeds(file) ==
  [i \in 1..Len(file.feed_lines) |-> extract_rss_feed_info(file.feed_lines[i])]

\* the files `self.cache_dir.glob("rss_cache_*.pkl")` lists
glob_rss_cache(dir) ==
  {f \in DOMAIN dir : Len(f) >= 2 /\ f[1] = "rss_cache_" /\ f[Len(f)] = ".pkl"}

Restrict(f, S) == [x \in S |-> f[x]]

\* a clear that ignores its argument
clear_rss_cache_All(dir, feed_url) == Restrict(dir, DOMAIN dir \ glob_rss_cache(dir))

\* PersonalizationManager.clear_rss_cache: `if feed_url:` is false for None
\* and for the empty string
clear_rss_cache(dir, feed_url) ==
  IF feed_url # None /\ feed_url # <<>> THEN
    Restrict(dir, DOMAIN dir \ {get_cache_file_path(feed_url)})
  ELSE Restrict(dir, DOMAIN dir \ glob_rss_cache(dir))

\* ----------------------------------------------------------------- actions
NoArgs == [max_retries |-> NoneInt, include_personalization |-> FALSE,
           include_rss |-> FALSE, include_web |-> FALSE]
NoFetch(dir) == [rss_content |-> EmptyDict, cache_dir |-> dir, fetch_log |-> <<>>,
                 exc |-> FALSE]

\* the max_retries arguments explored (None takes Config.MAX_RETRIES)
RetryArgs == {NoneInt} \cup 0..MaxRetries
\* an environment in which every feed is served and every write succeeds
QuietEnvs == {[remote |-> [u \in Urls |-> "full"], save |-> [u \in Urls |-> "ok"]]}
\* the environments that differ where a fetch of the configured feeds can see
\* it: on the feeds that are configured and have no fresh readable entry
EnvsFor(feeds, dir, t) ==
  LET quiet == {u \in Urls : \A i \in 1..Len(feeds) :
                               feeds[i].url = u => load_cached_rss(dir, u, t).ok}
  IN {e \in Envs : \A u \in quiet : e.remote[u] = "full" /\ e.save[u] = "ok"}

NoDeployArgs == [file_path |-> "", new_content |-> None, max_lines |-> 0,
                 merge_existing |-> FALSE]

InitCall ==
  /\ pc = "idle"
  /\ call_args = NoArgs
  /\ max_retries = 0
  /\ provider_order = <<>>
  /\ provider_idx = 0
  /\ attempt = 0
  /\ api_log = <<>>
  /\ result = None
  /\ exc = FALSE
  /\ op = "init"
  /\ rss_content = EmptyDict
  /\ fetch_log = <<>>
  /\ context = NoContext
  /\ cleared = None
  /\ cache_dir = EmptyDict
  /\ now = 0
  /\ processed_content = None
  /\ backups = EmptyDict
  /\ deploy_args = NoDeployArgs
  /\ success = FALSE
  /\ deploy_log = <<>>
  /\ runs = 0
  /\ specific_files = <<>>
  /\ setup_valid = TRUE
  /\ results = EmptyDict
  /\ run_log = <<>>
  /\ run_result = FALSE

\* no generator has run, no destination file exists
InitGenerator ==
  /\ chatter_type = "none"
  /\ new_content = None
  /\ files = EmptyDict

\* APIClient() in a deployment that passed Config.validate(): both keys set,
\* PersonalizationManager() has loaded some personalization file
Init ==
  /\ OPENAI_API_KEY = TRUE
  /\ ANTHROPIC_API_KEY = TRUE
  /\ PREFERRED_PROVIDER = "OPENAI"
  /\ openai_client = initialize_clients(OPENAI_API_KEY)
  /\ anthropic_client = initialize_clients(ANTHROPIC_API_KEY)
  /\ \E file \in PersonalizationFiles :
       /\ context_data = parse_sections(file)
       /\ rss_feeds = parse_feeds(file)
  /\ InitCall
  /\ InitGenerator

\* APIClient() under any configuration of keys and preference (the preference
\* is upper-cased text, not checked), with no personalization file
InitApi ==
  /\ OPENAI_API_KEY \in BOOLEAN
  /\ ANTHROPIC_API_KEY \in BOOLEAN
  /\ PREFERRED_PROVIDER \in Providers \cup {"GEMINI"}
  /\ openai_client = initialize_clients(OPENAI_API_KEY)
  /\ anthropic_client = initialize_clients(ANTHROPIC_API_KEY)
  /\ context_data = {}
  /\ rss_feeds = <<>>
  /\ InitCall
  /\ InitGenerator

ClearCallOutputs ==
  /\ call_args' = NoArgs
  /\ max_retries' = 0
  /\ provider_order' = <<>>
  /\ provider_idx' = 0
  /\ attempt' = 0
  /\ api_log' = <<>>
  /\ result' = None
  /\ pc' = "idle"

ClearFetchOutputs ==
  /\ rss_content' = EmptyDict
  /\ fetch_log' = <<>>
  /\ context' = NoContext
  /\ cleared' = None

\* the clock advances between operations
Tick ==
  /\ pc = "idle"
  /\ now + TickHours <= MaxTime
  /\ now' = now + TickHours
  /\ op' = "tick"
  /\ exc' = FALSE
  /\ ClearCallOutputs /\ ClearFetchOutputs
  /\ UNCHANGED <<normalizer_vars, deploy_vars, config_vars, run_vars, personalization_vars, cache_dir>>

\* PersonalizationManager.__init__ / _load_personalization of a new run,
\* over the cache directory the earlier runs left
LoadPersonalization(file) ==
  /\ pc = "idle"
  /\ context_data' = parse_sections(file)
  /\ rss_feeds' = parse_feeds(file)
  /\ op' = "load"
  /\ exc' = FALSE
  /\ ClearCallOutputs /\ ClearFetchOutputs
  /\ UNCHANGED <<normalizer_vars, deploy_vars, config_vars, run_vars, cache_dir, now>>

\* PersonalizationManager.fetch_rss_content(), as get_rss_summary calls it
FetchRssContent(env) ==
  /\ pc = "idle"
  /\ \E r \in {fetch_rss_content(rss_feeds, cache_dir, now, env, default_max_entries)} :
       /\ rss_content' = r.rss_content
       /\ cache_dir' = r.cache_dir
       /\ fetch_log' = r.fetch_log
       /\ exc' = r.exc
  /\ context' = NoContext
  /\ cleared' = None
  /\ op' = "fetch_rss_content"
  /\ ClearCallOutputs
  /\ UNCHANGED <<normalizer_vars, deploy_vars, config_vars, run_vars, personalization_vars, now>>

\* PersonalizationManager.get_personalization_context(include_rss, include_web)
GetPersonalizationContext(include_rss, include_web, env) ==
  /\ pc = "idle"
  /\ \E r \in {get_personalization_context(context_data, rss_feeds, cache_dir, now,
                                            env, include_rss, include_web)} :
       /\ context' = r.context
       /\ rss_content' = r.fetched.rss_content
       /\ cache_dir' = r.fetched.cache_dir
       /\ fetch_log' = r.fetched.fetch_log
       /\ exc' = r.fetched.exc
  /\ cleared' = None
  /\ op' = "get_personalization_context"
  /\ ClearCallOutputs
  /\ UNCHANGED <<normalizer_vars, deploy_vars, config_vars, run_vars, personalization_vars, now>>

\* PersonalizationManager.clear_rss_cache(feed_url)
ClearRssCache(feed_url) ==
  /\ pc = "idle"
  /\ cache_dir' = clear_rss_cache(cache_dir, feed_url)
  /\ op' = "clear_rss_cache"
  /\ exc' = FALSE
  /\ cleared' = feed_url
  /\ rss_content' = EmptyDict
  /\ fetch_log' = <<>>
  /\ context' = NoContext
  /\ ClearCallOutputs
  /\ UNCHANGED <<normalizer_vars, deploy_vars, config_vars, run_vars, personalization_vars, now>>

\* APIClient.generate_content lines 49-65: the effective max_retries, the
\* personalization context (a get_personalization_context call unless
\* include_personalization is false), the provider order
GenerateContentCall(max_retries_arg, include_personalization, include_rss, include_web, env) ==
  /\ pc = "idle"
  /\ call_args' = [max_retries |-> max_retries_arg,
                   include_personalization |-> include_personalization,
                   include_rss |-> include_rss, include_web |-> include_web]
  /\ max_retries' = IF max_retries_arg = NoneInt THEN MAX_RETRIES ELSE max_retries_arg
  /\ \E r \in {IF include_personalization
                THEN get_personalization_context(context_data, rss_feeds, cache_dir,
                                                 now, env, include_rss, include_web)
                ELSE [context |-> NoContext, fetched |-> NoFetch(cache_dir)]} :
       /\ context' = r.context
       /\ rss_content' = r.fetched.rss_content
       /\ cache_dir' = r.fetched.cache_dir
       /\ fetch_log' = r.fetched.fetch_log
       /\ exc' = r.fetched.exc
       /\ pc' = IF r.fetched.exc THEN "idle" ELSE "provider"
  /\ provider_order' = get_provider_order(PREFERRED_PROVIDER)
  /\ provider_idx' = 1
  /\ attempt' = 0
  /\ api_log' = <<>>
  /\ result' = None
  /\ cleared' = None
  /\ op' = "generate_content"
  /\ UNCHANGED <<normalizer_vars, deploy_vars, config_vars, run_vars, personalization_vars, now>>

\* a provider loop that gives up at the first provider without a client
TryProvider_StopAtUnconfigured ==
  /\ pc = "provider"
  /\ IF provider_idx > Len(provider_order)
        \/ ~client_configured(provider_order[provider_idx]) THEN
       /\ pc' = "idle"
       /\ result' = None
       /\ UNCHANGED <<provider_idx, attempt>>
     ELSE IF max_retries > 0 THEN
       /\ pc' = "attempt"
       /\ attempt' = 0
       /\ UNCHANGED <<provider_idx, result>>
     ELSE
       /\ provider_idx' = provider_idx + 1
       /\ UNCHANGED <<pc, attempt, result>>
  /\ UNCHANGED <<normalizer_vars, deploy_vars, config_vars, run_vars, personalization_vars, fetch_vars, call_args,
                 max_retries, provider_order, api_log, exc, cache_dir, now, op>>

\* generate_content lines 67-88: the head of `for provider in provider_order`.
\* Past the last provider the call returns None; a provider without a client
\* matches neither branch and the loop goes on; a configured provider's
\* retry loop is entered (an empty range returns None at once).
TryProvider ==
  /\ pc = "provider"
  /\ IF provider_idx > Len(provider_order) THEN
       /\ pc' = "idle"
       /\ result' = None
       /\ UNCHANGED <<provider_idx, attempt>>
     ELSE IF client_configured(provider_order[provider_idx]) /\ max_retries > 0 THEN
       /\ pc' = "attempt"
       /\ attempt' = 0
       /\ UNCHANGED <<provider_idx, result>>
     ELSE
       /\ provider_idx' = provider_idx + 1
       /\ UNCHANGED <<pc, attempt, result>>
  /\ UNCHANGED <<normalizer_vars, deploy_vars, config_vars, run_vars, personalization_vars, fetch_vars, call_args,
                 max_retries, provider_order, api_log, exc, cache_dir, now, op>>

\* _generate_openai / _generate_anthropic lines 92-113 (117-138): one
\* iteration of `for attempt in range(max_retries)`.  A non-empty trimmed
\* reply is returned, and generate_content returns it (lines 73-75, 79-81);
\* an exception is caught, logged and followed by the backoff sleep; after
\* the last iteration the method returns None and the provider loop goes on.
GenerateAttempt(response) ==
  /\ pc = "attempt"
  /\ LET provider == provider_order[provider_idx]
         content == strip(response.text)
         called == Append(api_log, CallEvent(provider, attempt, response)) IN
       IF ~response.raised /\ content # <<>> THEN
         /\ api_log' = called
         /\ result' = content
         /\ pc' = "idle"
         /\ UNCHANGED <<provider_idx, attempt>>
       ELSE
         /\ api_log' = IF backoff_due(response.raised, attempt, max_retries)
                       THEN Append(called, SleepEvent(provider, attempt))
                       ELSE called
         /\ IF range_continues(attempt, max_retries)
            THEN /\ attempt' = attempt + 1
                 /\ UNCHANGED <<provider_idx, pc>>
            ELSE /\ provider_idx' = provider_idx + 1
                 /\ pc' = "provider"
                 /\ UNCHANGED attempt
         /\ UNCHANGED result
  /\ UNCHANGED <<normalizer_vars, deploy_vars, config_vars, run_vars, personalization_vars, fetch_vars, call_args,
                 max_retries, provider_order, exc, cache_dir, now, op>>

\* the pipeline with its feed cache: every operation, few provider replies
Next ==
  \/ Tick
  \/ \E file \in PersonalizationFiles : LoadPersonalization(file)
  \/ \E env \in EnvsFor(rss_feeds, cache_dir, now) : FetchRssContent(env)
  \/ \E env \in EnvsFor(rss_feeds, cache_dir, now) :
       GetPersonalizationContext(TRUE, TRUE, env)
  \/ \E env \in QuietEnvs : GetPersonalizationContext(FALSE, TRUE, env)
  \/ \E feed_url \in {None} \cup Urls : ClearRssCache(feed_url)
  \/ \E env \in EnvsFor(rss_feeds, cache_dir, now) :
       GenerateContentCall(1, TRUE, TRUE, TRUE, env)
  \/ \E include_personalization, include_rss \in BOOLEAN, env \in QuietEnvs :
       /\ ~(include_personalization /\ include_rss)
       /\ GenerateContentCall(1, include_personalization, include_rss, TRUE, env)
  \/ TryProvider
  \/ \E response \in FewResponses : GenerateAttempt(response)

Spec == Init /\ [][Next]_vars

\* the failover client alone: every configuration, every reply
NextApi ==
  \/ \E max_retries_arg \in RetryArgs, include_personalization \in BOOLEAN,
        env \in QuietEnvs :
       GenerateContentCall(max_retries_arg, include_personalization, TRUE, TRUE, env)
  \/ TryProvider
  \/ \E response \in Responses : GenerateAttempt(response)

SpecApi == InitApi /\ [][NextApi]_vars

\* ---------------------------------------------- properties: failover client
IsCall(i) == api_log[i].kind = "call"
IsSleep(i) == api_log[i].kind = "sleep"
AllSpace(t) == \A i \in 1..Len(t) : IsSpace(t[i])
\* a provider call that raised, or replied with empty or whitespace-only text
Failed(e) == e.raised \/ AllSpace(e.text)
CallsBefore(p, n) == Cardinality({i \in 1..n : IsCall(i) /\ api_log[i].provider = p})
CallsTo(p) == CallsBefore(p, Len(api_log))
HasKey(p) == \/ p = "OPENAI" /\ OPENAI_API_KEY
             \/ p = "ANTHROPIC" /\ ANTHROPIC_API_KEY
InCall == op = "generate_content"
ReturnedFromCall == InCall /\ pc = "idle"

\* C1: generate_content contacts the providers in the configured preference
\* order (every call to the preferred provider precedes every call to the
\* other, and the loop never comes back to a provider it has left), and a
\* call that yields non-empty text is the last event of the run: the run has
\* returned, and returned that text trimmed; a returned text is always the
\* reply of the last call made.
C1_PreferenceOrderFirstSuccess ==
  InCall =>
    /\ \A i, j \in 1..Len(api_log) :
         (i < j /\ IsCall(i) /\ IsCall(j)) =>
           /\ (PREFERRED_PROVIDER \in Providers
                 /\ api_log[j].provider = PREFERRED_PROVIDER)
                => api_log[i].provider = PREFERRED_PROVIDER
           /\ \A k \in 1..Len(api_log) :
                (j < k /\ IsCall(k) /\ api_log[i].provider # api_log[j].provider)
                  => api_log[k].provider # api_log[i].provider
    /\ \A i \in 1..Len(api_log) :
         (IsCall(i) /\ ~Failed(api_log[i])) =>
           /\ i = Len(api_log)
           /\ pc = "idle"
           /\ result = rstrip(lstrip(api_log[i].text))
    /\ (pc = "idle" /\ result # None) =>
         /\ api_log # <<>>
         /\ IsCall(Len(api_log))
         /\ ~Failed(api_log[Len(api_log)])

\* the preferred provider failed on every attempt and the fallback answered
C1_Witness ==
  /\ ReturnedFromCall
  /\ PREFERRED_PROVIDER = "ANTHROPIC"
  /\ result = <<"o", "k">>
  /\ CallsTo("ANTHROPIC") = max_retries
  /\ max_retries >= 2
  /\ api_log[Len(api_log)].provider = "OPENAI"

\* C2: when every call of the run failed (raised, or replied with empty or
\* whitespace-only text) the returned value is None, and no exception escapes
\* generate_content.
C2_AllFailReturnsNone ==
  /\ InCall => ~exc
  /\ (ReturnedFromCall /\ \A i \in 1..Len(api_log) : IsCall(i) => Failed(api_log[i]))
       => result = None

\* both providers were tried, by errors and by blank replies, and None came back
C2_Witness ==
  /\ ReturnedFromCall
  /\ result = None
  /\ ~exc
  /\ CallsTo("OPENAI") >= 2
  /\ CallsTo("ANTHROPIC") >= 2
  /\ \E i, j, k \in 1..Len(api_log) :
       /\ IsCall(i) /\ api_log[i].raised
       /\ IsCall(j) /\ ~api_log[j].raised /\ api_log[j].text = <<>>
       /\ IsCall(k) /\ ~api_log[k].raised /\ api_log[k].text = <<" ">>

\* C3: a provider is never called more than max_retries times; a run makes at
\* most max_retries * (number of configured providers) calls; a configured
\* provider the loop has left without a result was called exactly
\* max_retries times; and when the fallback is called, a configured preferred
\* provider has had its max_retries calls before.
C3_RetryBudget ==
  InCall =>
    /\ \A p \in Providers : CallsTo(p) <= max_retries
    /\ Cardinality({i \in 1..Len(api_log) : IsCall(i)})
         <= max_retries * Cardinality({p \in Providers : HasKey(p)})
    /\ \A idx \in 1..Len(provider_order) :
         (idx < provider_idx /\ HasKey(provider_order[idx]))
           => CallsTo(provider_order[idx]) = max_retries
    /\ \A i \in 1..Len(api_log) :
         (IsCall(i) /\ api_log[i].provider = provider_order[2]
            /\ HasKey(provider_order[1]))
           => CallsBefore(provider_order[1], i - 1) = max_retries

\* both providers configured, every attempt failed: 2 * max_retries calls
C3_Witness ==
  /\ ReturnedFromCall
  /\ result = None
  /\ max_retries >= 2
  /\ HasKey("OPENAI") /\ HasKey("ANTHROPIC")
  /\ Cardinality({i \in 1..Len(api_log) : IsCall(i)}) = 2 * max_retries

\* C4: every failed attempt k of a provider that is not its last one (it
\* raised, or replied with empty text) is followed by a sleep of 2^k seconds
\* before attempt k+1, and no sleep follows the provider's last attempt.
C4_BackoffBeforeEveryRetry ==
  InCall =>
    \A i \in 1..Len(api_log) :
      /\ (IsCall(i) /\ Failed(api_log[i]) /\ i < Len(api_log)) =>
           IF api_log[i].attempt < max_retries - 1
           THEN /\ IsSleep(i + 1)
                /\ api_log[i + 1].provider = api_log[i].provider
                /\ api_log[i + 1].seconds = Pow(2, api_log[i].attempt)
           ELSE ~IsSleep(i + 1)
      /\ IsSleep(i) => i > 1 /\ IsCall(i - 1) /\ Failed(api_log[i - 1])

\* C5: a provider whose API key is not set gets no call and no backoff sleep,
\* and the loop goes on: when the run returns None, every provider whose key
\* is set has had its full max_retries calls.
C5_UnconfiguredSkipped ==
  InCall =>
    /\ \A p \in Providers :
         ~HasKey(p) => \A i \in 1..Len(api_log) : api_log[i].provider # p
    /\ (pc = "idle" /\ result = None) =>
         \A p \in Providers : HasKey(p) => CallsTo(p) = max_retries

\* the preferred provider has no key; the fallback used up its attempts
C5_Witness ==
  /\ ReturnedFromCall
  /\ result = None
  /\ PREFERRED_PROVIDER = "OPENAI"
  /\ ~OPENAI_API_KEY /\ ANTHROPIC_API_KEY
  /\ max_retries >= 2
  /\ CallsTo("OPENAI") = 0
  /\ CallsTo("ANTHROPIC") = max_retries
  /\ \E i \in 1..Len(api_log) : IsSleep(i)

\* ------------------------------------------------- properties: feed cache
\* this step ran fetch_rss_content over at least one configured feed
FetchRan == pc = "idle" /\ fetch_log' # <<>>
AfterFetch == fetch_log # <<>>
FeedUrls == {rss_feeds[i].url : i \in 1..Len(rss_feeds)}
EventsOf(log, u) == {i \in 1..Len(log) : log[i].url = u}
FromNetwork(log, u) == \E i \in EventsOf(log, u) : log[i].source # "cache"
FromCache(log, u) == \E i \in EventsOf(log, u) : log[i].source = "cache"
Changed(f) == f \notin DOMAIN cache_dir \/ cache_dir'[f] # cache_dir[f]

C7_CacheFreshness ==
  [][FetchRan =>
       \A u \in FeedUrls :
         LET f == get_cache_file_path(u) IN
           f \in DOMAIN cache_dir =>
             /\ (now < cache_dir[f].mtime + 8 /\ ~cache_dir[f].corrupt) =>
                  /\ ~FromNetwork(fetch_log', u)
                  /\ u \in DOMAIN rss_content'
                  /\ \A k \in 1..Len(rss_content'[u]) :
                       rss_content'[u][k] = cache_dir[f].data.entries[k]
                  /\ cache_dir'[f] = cache_dir[f]
             /\ now >= cache_dir[f].mtime + 8 => FromNetwork(fetch_log', u)]_vars

\* an entry written a tick ago has just been served from the cache
C7_Witness ==
  /\ op = "fetch_rss_content"
  /\ \E i \in 1..Len(fetch_log) :
       /\ fetch_log[i].source = "cache"
       /\ cache_dir[get_cache_file_path(fetch_log[i].url)].mtime < now
       /\ rss_content[fetch_log[i].url] # <<>>

\* an entry written 8 hours ago has just been replaced by a fresh fetch
C7_WitnessStale ==
  /\ op = "fetch_rss_content"
  /\ now = 8
  /\ \E i, j \in 1..Len(fetch_log) :
       /\ fetch_log[i].source = "fetched"
       /\ fetch_log[j].source = "cache"
       /\ cache_dir[get_cache_file_path(fetch_log[j].url)].mtime = 4

\* what the operations that fetch feeds guarantee whatever fails
FetchIsolated ==
  /\ ~exc
  /\ \A u \in FeedUrls : EventsOf(fetch_log, u) # {}
  /\ op = "get_personalization_context" =>
       /\ context.sections = context_data
       /\ context.news = rss_content

\* C8 as claimed: after a fetch no exception has escaped, every configured
\* feed was processed, get_personalization_context returned the static
\* sections, and a feed whose fetch raised, whose cache file could not be
\* read or whose cache write failed contributes no entries.
C8_FailedFeedContributesNothing ==
  AfterFetch =>
    /\ FetchIsolated
    /\ \A i \in 1..Len(fetch_log) :
         (\/ fetch_log[i].source = "error"
          \/ fetch_log[i].load_failed
          \/ fetch_log[i].save_failed)
           => fetch_log[i].url \notin DOMAIN rss_content

\* C8 amended: after a fetch no exception has escaped, every configured feed
\* was processed and get_personalization_context returned the static
\* sections; a feed whose fetch raised contributes no entries; a feed whose
\* cache file could not be read was fetched from the network; a feed whose
\* cache write failed contributes the entries just fetched.
C8_FeedFailuresIsolated ==
  AfterFetch =>
    /\ FetchIsolated
    /\ \A i \in 1..Len(fetch_log) :
         /\ fetch_log[i].source = "error" => fetch_log[i].url \notin DOMAIN rss_content
         /\ fetch_log[i].load_failed => fetch_log[i].source # "cache"
         /\ fetch_log[i].save_failed =>
              /\ fetch_log[i].url \in DOMAIN rss_content
              /\ rss_content[fetch_log[i].url] # <<>>

\* the first feed's fetch raised, the second was still fetched, and the
\* context has the static sections and the second feed's entries only
C8_Witness ==
  /\ op = "get_personalization_context"
  /\ Len(fetch_log) = 2
  /\ fetch_log[1].source = "error"
  /\ fetch_log[2].source = "fetched"
  /\ "Data" \in context.sections
  /\ DOMAIN context.news = {fetch_log[2].url}

\* C9: clear_rss_cache() leaves no cache file; clear_rss_cache(url) removes
\* the file of that feed, whatever its age, and leaves the file of every
\* other feed as it was; and the fetch_rss_content that follows a clear goes
\* to the network for every cleared feed.
C9_ClearRemovesEntries ==
  [][/\ op' = "clear_rss_cache" =>
          IF cleared' = None
          THEN \A u \in Urls : get_cache_file_path(u) \notin DOMAIN cache_dir'
          ELSE /\ get_cache_file_path(cleared') \notin DOMAIN cache_dir'
               /\ \A u \in Urls \ {cleared'} :
                    LET f == get_cache_file_path(u) IN
                      IF f \in DOMAIN cache_dir
                      THEN f \in DOMAIN cache_dir' /\ cache_dir'[f] = cache_dir[f]
                      ELSE f \notin DOMAIN cache_dir'
     /\ (op = "clear_rss_cache" /\ FetchRan) =>
          \A u \in FeedUrls :
            (cleared = None \/ cleared = u) => ~FromCache(fetch_log', u)]_vars

\* one feed's entry was cleared while the other feed's fresh entry stayed
C9_Witness ==
  /\ op = "clear_rss_cache"
  /\ cleared = UrlNews
  /\ get_cache_file_path(UrlNews) \notin DOMAIN cache_dir
  /\ get_cache_file_path(UrlBlog) \in DOMAIN cache_dir
  /\ cache_dir[get_cache_file_path(UrlBlog)].mtime = now

\* C10: for every configured feed the number of entries fetch_rss_content
\* returns is at most the feed's entry cap, or the default cap (10) when the
\* feed line gives none.
C10_EntryCapRespected ==
  AfterFetch =>
    \A i \in 1..Len(rss_feeds) :
      rss_feeds[i].url \in DOMAIN rss_content =>
        Len(rss_content[rss_feeds[i].url])
          <= (IF rss_feeds[i].max_entries # NoneInt
              THEN rss_feeds[i].max_entries ELSE 10)

\* ===================================================== generated text
\* A text is a sequence of atoms: each character the patterns of the code
\* tell apart is an atom of its own, and every maximal run of other
\* characters (a word, a tag name) is one atom
Special == {"[", "]", "<", ">", "(", ")", " ", "\t", "\n", "\r"}

\* len(text), in characters
RECURSIVE len(_)
len(s) == IF s = <<>> THEN 0
          ELSE (IF s[1] \in Special THEN 1 ELSE Len(s[1])) + len(Tail(s))

\* str.lower() on the words in use
LowerCase ==
  ("Commander" :> "commander") @@ ("COMMANDER" :> "commander") @@
  ("Helm" :> "helm") @@ ("Comms" :> "comms") @@ ("Bogus" :> "bogus") @@
  ("Number1" :> "number1") @@ ("Hi" :> "hi") @@ ("Hello" :> "hello") @@
  ("Medical" :> "medical") @@ ("Captain" :> "captain") @@
  ("In-Combat" :> "in-combat") @@ ("Spam" :> "spam") @@
  ("Line" :> "line") @@ ("A" :> "a") @@ ("B" :> "b") @@ ("C" :> "c")
lower_atom(a) == IF a \in DOMAIN LowerCase THEN LowerCase[a] ELSE a
lower(s) == [i \in 1..Len(s) |-> lower_atom(s[i])]

\* str.find(c) counted from 1: the index of the first c, 0 when there is none
find(s, c) ==
  IF \E i \in 1..Len(s) : s[i] = c
  THEN CHOOSE i \in 1..Len(s) : s[i] = c /\ \A j \in 1..(i - 1) : s[j] # c
  ELSE 0

startswith(s, prefix) ==
  Len(s) >= Len(prefix) /\ SubSeq(s, 1, Len(prefix)) = prefix

\* str.split(sep)
RECURSIVE split(_, _)
split(s, sep) ==
  LET k == find(s, sep) IN
    IF k = 0 THEN <<s>>
    ELSE <<SubSeq(s, 1, k - 1)>> \o split(SubSeq(s, k + 1, Len(s)), sep)

\* sep.join(lines)
RECURSIVE join(_, _)
join(lines, sep) ==
  IF lines = <<>> THEN <<>>
  ELSE IF Len(lines) = 1 THEN lines[1]
  ELSE lines[1] \o <<sep>> \o join(Tail(lines), sep)

\* the index of the first atom from i on that is not whitespace
RECURSIVE skip_space(_, _)
skip_space(s, i) ==
  IF i <= Len(s) /\ IsSpace(s[i]) THEN skip_space(s, i + 1) ELSE i

\* \([^)]+\) matched at index k: the index of its closing parenthesis, else 0
paren_match(s, k) ==
  IF k <= Len(s) /\ s[k] = "("
  THEN LET r == find(SubSeq(s, k + 1, Len(s)), ")") IN
         IF r >= 2 THEN k + r ELSE 0
  ELSE 0

\* ^\[<[^>]+>\] matched at the start of s: the index of its "]", else 0
speaker_match(s) ==
  IF Len(s) >= 2 /\ s[1] = "[" /\ s[2] = "<"
  THEN LET r == find(SubSeq(s, 3, Len(s)), ">") IN
         IF r >= 2 /\ r + 3 <= Len(s) /\ s[r + 3] = "]" THEN r + 3 ELSE 0
  ELSE 0

\* re.sub(r'\[<<([^>]+)>\]', r'[<\1>]', s) with open "[" and close "]", and
\* re.sub(r'\(<<([^>]+)>\)', r'(<\1>)', s) with open "(" and close ")"; the
\* scan goes from one `open` to the next
RECURSIVE fix_double_brackets(_, _, _)
fix_double_brackets(s, open, close) ==
  LET k == find(s, open)
      r == IF k + 2 <= Len(s) /\ s[k + 1] = "<" /\ s[k + 2] = "<"
           THEN find(SubSeq(s, k + 3, Len(s)), ">") ELSE 0
      e == k + 3 + r
  IN IF k = 0 THEN s
     ELSE IF r >= 2 /\ e <= Len(s) /\ s[e] = close
     THEN SubSeq(s, 1, k + 1) \o SubSeq(s, k + 3, e)
            \o fix_double_brackets(SubSeq(s, e + 1, Len(s)), open, close)
     ELSE SubSeq(s, 1, k)
            \o fix_double_brackets(SubSeq(s, k + 1, Len(s)), open, close)

\* re.sub(r'\s*\([^)]+\)\s*', ' ', s); the scan goes from one "(" to the
\* next, a match takes the whitespace on both its sides with it
RECURSIVE remove_paren_tags(_)
remove_paren_tags(s) ==
  LET k == find(s, "(")
      e == paren_match(s, k)
  IN IF k = 0 THEN s
     ELSE IF e > 0
     THEN rstrip(SubSeq(s, 1, k - 1)) \o <<" ">>
            \o remove_paren_tags(SubSeq(s, skip_space(s, e + 1), Len(s)))
     ELSE SubSeq(s, 1, k) \o remove_paren_tags(SubSeq(s, k + 1, Len(s)))

\* re.findall(r'\([^)]+\)', s)
RECURSIVE find_paren_tags(_)
find_paren_tags(s) ==
  LET k == find(s, "(")
      e == paren_match(s, k)
  IN IF k = 0 THEN <<>>
     ELSE IF e > 0
     THEN <<SubSeq(s, k, e)>> \o find_paren_tags(SubSeq(s, e + 1, Len(s)))
     ELSE find_paren_tags(SubSeq(s, k + 1, Len(s)))

\* ========================================================== normalizer
ChatterTypes == {"chit_chat", "crew_chatter", "space_chatter", "deep_space_chatter"}
MarkerTypes == ChatterTypes \ {"chit_chat"}

ExampleStart == <<"[", "example", "]">>
ExampleEnd == <<"[", "/example", "]">>
ContextTag(name) == <<"(", name, ")">>
SpeakerTag(name) == <<"[", "<", name, ">", "]">>

\* _fix_context_tags: valid_tags
valid_tags(type) ==
  IF type \in MarkerTypes
  THEN {ContextTag("not-station"), ContextTag("not-planet"), ContextTag("not-deep-space")}
  ELSE {}

\* _fix_context_tags: tag_fixes, the patterns by their lower-case name
tag_fixes ==
  ("not-in-station" :> "not-station") @@ ("not-on-planet" :> "not-planet") @@
  ("not-in-deep-space" :> "not-deep-space") @@ ("deep-space" :> "not-deep-space") @@
  ("exploring" :> "not-station") @@ ("in-combat" :> "not-station") @@
  ("trading" :> "not-station") @@ ("mining" :> "not-station") @@
  ("fuel-low" :> "not-station") @@ ("damage" :> "not-station") @@
  ("near-nebula" :> "not-station") @@ ("near-black-hole" :> "not-station") @@
  ("near-neutron-star" :> "not-station") @@ ("asteroid-field" :> "not-station") @@
  ("unknown-region" :> "not-station") @@ ("distant-system" :> "not-station") @@
  ("void" :> "not-station") @@ ("anomaly" :> "not-station")

\* the loop of re.sub(wrong_tag, correct_tag, content, flags=re.IGNORECASE):
\* no replacement is matched by a later pattern, so one pass does them all
apply_tag_fixes(s) ==
  [i \in 1..Len(s) |->
     IF 1 < i /\ i < Len(s) /\ s[i - 1] = "(" /\ s[i + 1] = ")"
        /\ lower_atom(s[i]) \in DOMAIN tag_fixes
     THEN tag_fixes[lower_atom(s[i])] ELSE s[i]]

\* `line.strip().startswith('[<') and ']' in line`
is_speaker_line(line) ==
  startswith(strip(line), <<"[", "<">>) /\ find(line, "]") > 0

RECURSIVE valid_only(_, _)
valid_only(tags, type) ==
  IF tags = <<>> THEN <<>>
  ELSE (IF tags[1] \in valid_tags(type) THEN <<tags[1]>> ELSE <<>>)
         \o valid_only(Tail(tags), type)

\* _fix_context_tags lines 441-458: the first speaker line of an example.
\* The line is rebuilt only when it has a valid tag.
fix_first_line(line, type) ==
  LET valid_context_tags == valid_only(find_paren_tags(line), type)
      line_without_tags == remove_paren_tags(line)
      speaker_end == find(line_without_tags, "]")
      before_speaker == SubSeq(line_without_tags, 1, speaker_end)
      after_speaker == strip(SubSeq(line_without_tags, speaker_end + 1,
                                    Len(line_without_tags)))
  IN IF valid_context_tags # <<>>
     THEN before_speaker \o <<" ">> \o join(valid_context_tags, " ")
            \o <<" ">> \o after_speaker
     ELSE line

\* _fix_context_tags lines 425-465: the loop over the lines
RECURSIVE fix_context_lines(_, _, _, _)
fix_context_lines(lines, type, in_example, first_line_in_example) ==
  IF lines = <<>> THEN <<>>
  ELSE LET line == lines[1]
           rest == Tail(lines)
       IN IF strip(line) = ExampleStart
          THEN <<line>> \o fix_context_lines(rest, type, TRUE, TRUE)
          ELSE IF strip(line) = ExampleEnd
          THEN <<line>> \o fix_context_lines(rest, type, FALSE, FALSE)
          ELSE IF in_example /\ is_speaker_line(line)
          THEN <<IF first_line_in_example THEN fix_first_line(line, type)
                 ELSE remove_paren_tags(line)>>
                 \o fix_context_lines(rest, type, in_example, FALSE)
          ELSE <<line>> \o fix_context_lines(rest, type, in_example,
                                             first_line_in_example)

\* BaseGenerator._fix_context_tags
fix_context_tags(content, type) ==
  IF type = "chit_chat" THEN remove_paren_tags(content)
  ELSE join(fix_context_lines(split(apply_tag_fixes(content), "\n"), type,
                              FALSE, TRUE), "\n")

\* _fix_speaker_tags: valid_speakers
valid_speakers(type) ==
  LET crew == <<"Number1", "Science", "Helm", "Operations", "Engineering", "Comms",
                "EDCoPilot", "Crew:Medical", "Crew:Tactical", "Crew:Maintenance",
                "Crew:Security">>
      names == CASE type = "crew_chatter" -> crew
                 [] type = "space_chatter" ->
                      <<"Helm", "EDCoPilot", "Science", "Operations", "Tactical",
                        "Communications">>
                 [] type = "deep_space_chatter" ->
                      crew \o <<"Ship1", "Ship2", "Ship3", "Ship4">>
                 [] OTHER -> <<>>
  IN [i \in 1..Len(names) |-> SpeakerTag(names[i])]

\* _fix_speaker_tags: speaker_fixes, the patterns by their lower-case name
speaker_fixes ==
  ("medical" :> "Crew:Medical") @@ ("tactical" :> "Crew:Tactical") @@
  ("communications" :> "Comms") @@ ("comm" :> "Comms") @@
  ("commander" :> "Number1") @@ ("captain" :> "Number1") @@ ("crew" :> "Number1")

\* the loop of re.sub(wrong_speaker, correct_speaker, content,
\* flags=re.IGNORECASE); no replacement is matched by a later pattern
apply_speaker_fixes(s) ==
  [i \in 1..Len(s) |->
     IF 2 < i /\ i + 1 < Len(s) /\ s[i - 2] = "[" /\ s[i - 1] = "<"
        /\ s[i + 1] = ">" /\ s[i + 2] = "]"
        /\ lower_atom(s[i]) \in DOMAIN speaker_fixes
     THEN speaker_fixes[lower_atom(s[i])] ELSE s[i]]

\* _fix_speaker_tags lines 525-528
default_speaker(type) ==
  IF type = "crew_chatter" THEN SpeakerTag("Number1")
  ELSE IF valid_speakers(type) # <<>> THEN valid_speakers(type)[1]
  ELSE SpeakerTag("EDCoPilot")

\* _fix_speaker_tags lines 518-531: one line.  re.match anchors the tag at
\* the first character of the line as it is, not of the stripped line.
fix_speaker_line(line, type) ==
  LET e == speaker_match(line) IN
    IF is_speaker_line(line) /\ e > 0
       /\ SubSeq(line, 1, e) \notin Range(valid_speakers(type))
    THEN default_speaker(type) \o SubSeq(line, e + 1, Len(line))
    ELSE line

\* BaseGenerator._fix_speaker_tags
fix_speaker_tags(content, type) ==
  IF type = "chit_chat" THEN content
  ELSE LET fixed == IF type \in {"crew_chatter", "deep_space_chatter"}
                    THEN apply_speaker_fixes(content) ELSE content
           lines == split(fixed, "\n")
       IN join([i \in 1..Len(lines) |-> fix_speaker_line(lines[i], type)], "\n")

\* content.replace('\r\n', '\n').replace('\r', '\n')
RECURSIVE normalize_line_endings(_)
normalize_line_endings(s) ==
  LET k == find(s, "\r") IN
    IF k = 0 THEN s
    ELSE SubSeq(s, 1, k - 1) \o <<"\n">>
           \o normalize_line_endings(
                SubSeq(s, IF k < Len(s) /\ s[k + 1] = "\n" THEN k + 2 ELSE k + 1, Len(s)))

\* re.sub(r'\n\s*\n\s*\n+', '\n\n', s): a run of whitespace that starts at a
\* newline and holds three newlines or more is cut down, up to its last
\* newline, to two newlines; the scan goes from one newline to the next
RECURSIVE collapse_blank_lines(_)
collapse_blank_lines(s) ==
  LET k == find(s, "\n")
      w == skip_space(s, k) - 1
      newlines == {i \in k..w : s[i] = "\n"}
      last == CHOOSE i \in newlines : \A j \in newlines : j <= i
  IN IF k = 0 THEN s
     ELSE IF Cardinality(newlines) >= 3
     THEN SubSeq(s, 1, k - 1) \o <<"\n", "\n">>
            \o collapse_blank_lines(SubSeq(s, last + 1, Len(s)))
     ELSE SubSeq(s, 1, k) \o collapse_blank_lines(SubSeq(s, k + 1, Len(s)))

\* re.sub(r' +', ' ', line)
RECURSIVE collapse_spaces(_)
collapse_spaces(s) ==
  IF s = <<>> THEN <<>>
  ELSE IF Len(s) >= 2 /\ s[1] = " " /\ s[2] = " " THEN collapse_spaces(Tail(s))
  ELSE <<s[1]>> \o collapse_spaces(Tail(s))

\* _cleanup_content lines 355-361: strip each line, collapse its spaces, and
\* keep it unless it is empty
RECURSIVE clean_lines(_)
clean_lines(lines) ==
  IF lines = <<>> THEN <<>>
  ELSE LET cleaned_line == collapse_spaces(strip(lines[1])) IN
         (IF cleaned_line # <<>> THEN <<cleaned_line>> ELSE <<>>)
           \o clean_lines(Tail(lines))

\* BaseGenerator._cleanup_content
cleanup_content(content, type) ==
  LET brackets == fix_double_brackets(fix_double_brackets(content, "[", "]"), "(", ")")
      tagged == fix_speaker_tags(fix_context_tags(brackets, type), type)
      spaced == collapse_blank_lines(normalize_line_endings(tagged))
  IN join(clean_lines(split(spaced, "\n")), "\n")

\* _is_valid_example line 600: `len(line) > 10`
content_line_threshold == 10

\* `re.match(r'^\[<[^>]+>\].*', line) and len(line) > 10`
has_speaker_and_content(line) ==
  speaker_match(line) > 0 /\ len(line) > content_line_threshold

\* `re.match(r'^\[<[^>]+>\]\s*$', line)`
is_incomplete_speaker_line(line) ==
  LET e == speaker_match(line) IN
    e > 0 /\ \A i \in (e + 1)..Len(line) : IsSpace(line[i])

\* BaseGenerator._is_valid_example
is_valid_example(example_lines) ==
  /\ Len(example_lines) >= 3
  /\ example_lines[1] = ExampleStart
  /\ example_lines[Len(example_lines)] = ExampleEnd
  /\ \E i \in 2..(Len(example_lines) - 1) :
       has_speaker_and_content(strip(example_lines[i]))
  /\ \A i \in 2..(Len(example_lines) - 1) :
       ~is_incomplete_speaker_line(strip(example_lines[i]))

\* an end of content that flushes the example still open
incomplete_at_end_Kept(example_lines) == example_lines

\* _sanity_check_conversations lines 578-580: the example still open at the
\* end of the content is only logged, its lines are never added
incomplete_at_end(example_lines) == <<>>

\* a closed example that fails the check and is added all the same
invalid_example_Kept(example_lines) == example_lines

\* _sanity_check_conversations lines 563-566: a closed example that fails
\* _is_valid_example is only logged, its lines are never added
invalid_example(example_lines) == <<>>

\* _sanity_check_conversations lines 548-576: the loop over the lines; the
\* result is cleaned_lines
RECURSIVE sanity_lines(_, _, _)
sanity_lines(lines, in_example, example_lines) ==
  IF lines = <<>>
  THEN IF in_example THEN incomplete_at_end(example_lines) ELSE <<>>
  ELSE LET line == strip(lines[1])
           rest == Tail(lines)
           closed == Append(example_lines, line)
       IN IF line = ExampleStart THEN sanity_lines(rest, TRUE, <<line>>)
          ELSE IF in_example
          THEN IF line = ExampleEnd
               THEN (IF is_valid_example(closed) THEN closed ELSE invalid_example(closed))
                      \o sanity_lines(rest, FALSE, <<>>)
               ELSE sanity_lines(rest, TRUE, closed)
          ELSE <<line>> \o sanity_lines(rest, FALSE, <<>>)

\* BaseGenerator._sanity_check_conversations
sanity_check_conversations(content) ==
  join(sanity_lines(split(content, "\n"), FALSE, <<>>), "\n")

\* BaseGenerator._process_content: None for content that is empty once
\* stripped, else the cleaned and checked text (which may be empty)
process_content(content, type) ==
  LET processed == strip(content) IN
    IF processed = <<>> THEN None
    ELSE sanity_check_conversations(cleanup_content(processed, type))

\* ------------------------------------------------ generated texts explored
Sp == " "
Words(w1, w2) == <<w1, Sp, w2>>
\* lines of a conversation
LineTagged == SpeakerTag("Helm") \o <<Sp>> \o ContextTag("not-station") \o <<Sp>> \o Words("Hello", "there")
LineCommander == SpeakerTag("Commander") \o <<Sp, "Hi">>
LineFixable == SpeakerTag("Bogus") \o <<Sp>> \o ContextTag("In-Combat") \o <<Sp>> \o ContextTag("bogus") \o <<Sp, "reply">>
LineIndented == <<Sp>> \o SpeakerTag("Bogus") \o <<Sp, "Hi">>
LineNarration == ContextTag("bogus") \o <<Sp, "narration">>
LineNoText == SpeakerTag("Helm")
LineShort == SpeakerTag("Helm") \o <<Sp, "a">>
LineComms == SpeakerTag("Comms") \o <<Sp, "a">>
LineBadTag == SpeakerTag("Helm") \o <<Sp>> \o ContextTag("bogus") \o <<Sp, "Hello">>

\* the line sequences between the markers of a block
Bodies ==
  {<<>>, <<LineTagged>>, <<LineCommander>>, <<LineIndented>>, <<LineShort>>,
   <<LineComms>>, <<LineBadTag>>, <<LineFixable, LineTagged>>,
   <<LineTagged, LineNarration>>, <<LineNarration, LineTagged>>,
   <<LineTagged, LineNoText>>}

\* a block: its start marker, its lines, and its end marker unless truncated
Block(body, closed) ==
  <<ExampleStart>> \o body \o (IF closed THEN <<ExampleEnd>> ELSE <<>>)

\* the pieces a generated text is made of: blocks, and lines outside blocks
Chunks ==
  {Block(body, closed) : body \in Bodies, closed \in BOOLEAN}
    \cup {<<LineTagged>>, <<ExampleEnd>>, <<<<>>>>}

\* how many pieces a generated text has at most
MaxBlocks == 2

RECURSIVE ChunkSeqs(_)
ChunkSeqs(n) ==
  IF n = 0 THEN {<<>>}
  ELSE LET shorter == ChunkSeqs(n - 1) IN
         shorter \cup {Append(cs, c) : cs \in shorter, c \in Chunks}

RECURSIVE Flatten(_)
Flatten(chunks) == IF chunks = <<>> THEN <<>> ELSE chunks[1] \o Flatten(Tail(chunks))

\* the text of a sequence of pieces: its lines joined by newlines
TextOf(chunks) == join(Flatten(chunks), "\n")

\* two valid blocks and a truncated one at the end of the text
TextTwoValidOneTruncated ==
  TextOf(<<Block(<<LineTagged>>, TRUE), Block(<<LineCommander>>, TRUE),
           Block(<<LineTagged>>, FALSE)>>)

\* a valid block, a closed block that fails the check and a truncated one
TextValidInvalidTruncated ==
  TextOf(<<Block(<<LineTagged>>, TRUE), Block(<<LineTagged, LineNoText>>, TRUE),
           Block(<<LineCommander>>, FALSE)>>)

GeneratedTexts ==
  {TextOf(cs) : cs \in ChunkSeqs(MaxBlocks)}
    \cup {TextTwoValidOneTruncated, TextValidInvalidTruncated}

\* ---------------------------------------------- the normalizer on its own
InitNormalizer ==
  /\ OPENAI_API_KEY = TRUE
  /\ ANTHROPIC_API_KEY = TRUE
  /\ PREFERRED_PROVIDER = "OPENAI"
  /\ openai_client = initialize_clients(OPENAI_API_KEY)
  /\ anthropic_client = initialize_clients(ANTHROPIC_API_KEY)
  /\ context_data = {}
  /\ rss_feeds = <<>>
  /\ InitCall
  /\ files = EmptyDict
  /\ chatter_type \in ChatterTypes
  /\ new_content \in GeneratedTexts

client_vars == <<config_vars, run_vars, call_vars, personalization_vars, fetch_vars, exc, cache_dir, now>>

\* BaseGenerator._process_content(new_content), as process_and_deploy calls it
ProcessContent ==
  /\ op = "init"
  /\ processed_content' = process_content(new_content, chatter_type)
  /\ op' = "process_content"
  /\ UNCHANGED <<client_vars, deploy_vars, chatter_type, new_content>>

NextNormalizer == ProcessContent

SpecNormalizer == InitNormalizer /\ [][NextNormalizer]_vars

\* ------------------------------------------------- properties: normalizer
Normalized == op = "process_content"
MarkerCategory == chatter_type \in MarkerTypes
\* the lines of a text (None and the empty text have none)
LinesOf(text) == IF text = None \/ text = <<>> THEN <<>> ELSE split(text, "\n")
IsStartLine(lines, i) == strip(lines[i]) = ExampleStart
IsEndLine(lines, i) == strip(lines[i]) = ExampleEnd

\* the index of the first marker line after line i, or one past the last line
NextMarker(lines, i) ==
  LET later == {j \in (i + 1)..Len(lines) : IsStartLine(lines, j) \/ IsEndLine(lines, j)}
  IN IF later = {} THEN Len(lines) + 1
     ELSE CHOOSE j \in later : \A k \in later : j <= k

\* line i starts a block that has no end marker: its lines run up to the
\* next [example], or to the end of the text
IsTruncatedAt(lines, i) ==
  /\ IsStartLine(lines, i)
  /\ LET n == NextMarker(lines, i) IN n > Len(lines) \/ IsStartLine(lines, n)

\* the text without the truncated block that starts at line i
WithoutBlockAt(lines, i) ==
  join(SubSeq(lines, 1, i - 1) \o SubSeq(lines, NextMarker(lines, i), Len(lines)), "\n")

\* the index of the [example] line whose block holds line i of lines that
\* block validation left, 0 when line i is a marker or outside every block
BlockStartOf(lines, i) ==
  LET starts == {j \in 1..(i - 1) : lines[j] = ExampleStart}
      j == CHOOSE j \in starts : \A k \in starts : k <= j
  IN IF starts = {} \/ lines[i] \in {ExampleStart, ExampleEnd} THEN 0
     ELSE IF \E k \in (j + 1)..(i - 1) : lines[k] = ExampleEnd THEN 0
     ELSE j

TagsOf(line) == Range(find_paren_tags(line))

\* C11: in a marker-delimited category a block without its [/example] end
\* marker (cut off by the next [example] or by the end of the text) leaves
\* nothing in the normalizer's output, and the output is what the normalizer
\* gives for the text without that block
C11_TruncatedBlockDropped ==
  (Normalized /\ MarkerCategory) =>
    LET lines == LinesOf(new_content) IN
      \A i \in 1..Len(lines) :
        IsTruncatedAt(lines, i) =>
          LinesOf(processed_content)
            = LinesOf(process_content(WithoutBlockAt(lines, i), chatter_type))

\* two valid blocks and a truncated block went in, the two valid blocks came out
C11_Witness ==
  /\ Normalized
  /\ chatter_type = "crew_chatter"
  /\ new_content = TextTwoValidOneTruncated
  /\ processed_content
       = TextOf(<<Block(<<LineTagged>>, TRUE),
                  Block(<<SpeakerTag("Number1") \o <<Sp, "Hi">>>>, TRUE)>>)

\* C12: in a marker-delimited category no line of the output starts with a
\* speaker tag outside the category's allowed set (such a tag has been
\* rewritten to the category's default), and crew_chatter turns
\* "[example]\n[<Commander>] Hi\n[/example]" into
\* "[example]\n[<Number1>] Hi\n[/example]"
C12_DisallowedSpeakerRewritten ==
  (Normalized /\ MarkerCategory) =>
    /\ \A line \in Range(LinesOf(processed_content)) :
         LET e == speaker_match(line) IN
           e > 0 => SubSeq(line, 1, e) \in Range(valid_speakers(chatter_type))
    /\ (chatter_type = "crew_chatter"
        /\ new_content = TextOf(<<Block(<<LineCommander>>, TRUE)>>)) =>
         processed_content
           = TextOf(<<Block(<<SpeakerTag("Number1") \o <<Sp, "Hi">>>>, TRUE)>>)

\* C13: in the output of a marker-delimited category no line of a block
\* other than the block's first line carries a parenthesized tag
C13_NoTagAfterFirstLine ==
  (Normalized /\ MarkerCategory) =>
    LET lines == LinesOf(processed_content) IN
      \A i \in 1..Len(lines) :
        LET j == BlockStartOf(lines, i) IN
          (j > 0 /\ i > j + 1) => TagsOf(lines[i]) = {}

\* the text block validation works on: the stripped text after cleanup
CleanedLines == LinesOf(cleanup_content(strip(new_content), chatter_type))

\* the [example] line of the block that holds line k, 0 when line k is
\* outside every block
StartOf(lines, k) ==
  LET starts == {j \in 1..k : IsStartLine(lines, j)}
      s == CHOOSE j \in starts : \A i \in starts : i <= j
  IN IF starts = {} THEN 0
     ELSE IF \E e \in (s + 1)..(k - 1) : IsEndLine(lines, e) THEN 0
     ELSE s

\* the text that follows the speaker tag at the head of a line
TextAfterSpeaker(line) == strip(SubSeq(line, speaker_match(line) + 1, Len(line)))

\* the block that starts at line s has both markers, a line with a speaker
\* tag followed by text of more than t characters, and no line that is a
\* speaker tag followed by nothing
BlockMeetsCriteria(lines, s, t) ==
  LET n == NextMarker(lines, s) IN
    /\ n <= Len(lines)
    /\ IsEndLine(lines, n)
    /\ \E i \in (s + 1)..(n - 1) :
         speaker_match(lines[i]) > 0 /\ len(TextAfterSpeaker(lines[i])) > t
    /\ \A i \in (s + 1)..(n - 1) :
         ~(speaker_match(lines[i]) > 0 /\ TextAfterSpeaker(lines[i]) = <<>>)

\* the lines that stay when every block is kept whole or removed whole by
\* the criteria, and lines outside blocks pass through
LinesKeptBy(lines, t) ==
  LET keep(k) == LET s == StartOf(lines, k) IN s = 0 \/ BlockMeetsCriteria(lines, s, t)
      idx == SelectSeq([k \in 1..Len(lines) |-> k], keep)
  IN [m \in 1..Len(idx) |-> lines[idx[m]]]

\* C14: block validation keeps a block if and only if it has both markers,
\* has a line with a speaker tag followed by non-trivial text (text longer
\* than some fixed small threshold) and has no line that is a speaker tag
\* followed by nothing; a block is kept whole or removed whole
C14_BlockKeptIffValid ==
  (Normalized /\ MarkerCategory /\ processed_content # None) =>
    \E t \in 0..content_line_threshold :
      LinesOf(processed_content) = LinesKeptBy(CleanedLines, t)

\* the canonical tags an input line holds once the known spellings are mapped
CanonicalTagsOf(line, type) == Range(valid_only(find_paren_tags(apply_tag_fixes(line)), type))

\* C15: in a marker-delimited category the first line of every output block,
\* when it is a speaker line, carries canonical context tags only, and a
\* text that is one closed block keeps every canonical tag (after the known
\* spellings are mapped) of its first line; in chit_chat no output line
\* carries a parenthesized tag
C15_FirstLineTagsCanonical ==
  Normalized =>
    LET lines == LinesOf(processed_content) IN
      /\ MarkerCategory =>
           \A i \in 1..(Len(lines) - 1) :
             (lines[i] = ExampleStart /\ is_speaker_line(lines[i + 1])) =>
               TagsOf(lines[i + 1]) \subseteq valid_tags(chatter_type)
      /\ MarkerCategory =>
           \A body \in Bodies :
             (body # <<>> /\ new_content = TextOf(<<Block(body, TRUE)>>)
              /\ is_speaker_line(body[1]) /\ Len(lines) >= 2) =>
               CanonicalTagsOf(body[1], chatter_type) \subseteq TagsOf(lines[2])
      /\ chatter_type = "chit_chat" =>
           \A i \in 1..Len(lines) : TagsOf(lines[i]) = {}

\* ================================================== deployment manager
\* the output_file each generator passes to BaseGenerator.__init__
output_file(type) ==
  CASE type = "chit_chat" -> "EDCoPilot.ChitChat.Custom.txt"
    [] type = "crew_chatter" -> "EDCoPilot.CrewChatter.Custom.txt"
    [] type = "space_chatter" -> "EDCoPilot.SpaceChatter.Custom.txt"
    [] type = "deep_space_chatter" -> "EDCoPilot.DeepSpaceChatter.Custom.txt"

\* Path.exists()
exists(fs, path) == path \in DOMAIN fs

\* merge_content(max_lines=100)
default_max_lines == 100
\* validate_content: `len(content.strip()) < 50`
min_content_length == 50
\* validate_content: inappropriate_words
inappropriate_words == {"inappropriate", "offensive", "spam"}

\* how a deployment call's file operations end: shutil.copy2 of the backup
\* and open(..., 'r') succeed or raise; the write is done, or open(..., 'w')
\* raises (file untouched), or f.write raises after the file was truncated.
\* One operation at most fails in a call: a failure ends the call.
WriteOutcomes == {"ok", "open_fails", "write_fails"}
AllOk == [backup |-> TRUE, read |-> TRUE, write |-> "ok"]
DeployEnvs ==
  {AllOk, [AllOk EXCEPT !.backup = FALSE], [AllOk EXCEPT !.read = FALSE],
   [AllOk EXCEPT !.write = "open_fails"], [AllOk EXCEPT !.write = "write_fails"]}

\* FileManager.create_backup: a copy named after the file and the second of
\* the clock (a copy of the same second has the same name and is replaced);
\* shutil.copy2 keeps the modification time of the file
create_backup(fs, store, file_path, t, ok) ==
  IF ~exists(fs, file_path) \/ ~ok
  THEN [backup_path |-> None, backups |-> store]
  ELSE [backup_path |-> <<file_path, t>>,
        backups |-> (<<file_path, t>> :> fs[file_path]) @@ store]

\* a read that gives the empty text when it fails
read_file_content_EmptyOnFailure(fs, file_path, ok) ==
  IF exists(fs, file_path) /\ ok THEN fs[file_path].content ELSE <<>>

\* FileManager.read_file_content: None when reading fails
read_file_content(fs, file_path, ok) ==
  IF exists(fs, file_path) /\ ok THEN fs[file_path].content ELSE None

\* FileManager.write_file_content: the value returned and the files left
write_file_content(fs, file_path, content, t, outcome) ==
  CASE outcome = "ok" ->
         [ok |-> TRUE, files |-> (file_path :> [content |-> content, mtime |-> t]) @@ fs]
    [] outcome = "write_fails" ->
         [ok |-> FALSE, files |-> (file_path :> [content |-> <<>>, mtime |-> t]) @@ fs]
    [] OTHER -> [ok |-> FALSE, files |-> fs]

\* what write_file_content logs
write_log(ok) == IF ok THEN <<"written">> ELSE <<"write_failed">>

\* FileManager.write_content
write_content(fs, file_path, content, t, outcome) ==
  write_file_content(fs, file_path, content, t, outcome)

\* `[line.strip() for line in content.split('\n') if line.strip()]`
stripped_lines(content) ==
  LET lines == split(content, "\n")
      stripped == [i \in 1..Len(lines) |-> strip(lines[i])]
      kept(line) == line # <<>>
  IN SelectSeq(stripped, kept)

\* a duplicate test that tells "line a" from "Line A"
unique_new_lines_CaseSensitive(existing_lines, new_lines) ==
  LET is_new(line) == line \notin Range(existing_lines)
  IN SelectSeq(new_lines, is_new)

\* _merge_content_strings lines 203-204: the new lines that no existing line
\* equals, ignoring case
unique_new_lines(existing_lines, new_lines) ==
  LET existing_lower == {lower(line) : line \in Range(existing_lines)}
      is_new(line) == lower(line) \notin existing_lower
  IN SelectSeq(new_lines, is_new)

\* a limit that keeps the oldest lines
keep_most_recent_Oldest(combined_lines, max_lines) ==
  IF Len(combined_lines) > max_lines
  THEN SubSeq(combined_lines, 1, max_lines)
  ELSE combined_lines

\* _merge_content_strings lines 208-209: `combined_lines[-max_lines:]`,
\* which is the whole list when max_lines is 0
keep_most_recent(combined_lines, max_lines) ==
  IF Len(combined_lines) > max_lines /\ max_lines > 0
  THEN SubSeq(combined_lines, Len(combined_lines) - max_lines + 1, Len(combined_lines))
  ELSE combined_lines

\* FileManager._merge_content_strings
merge_content_strings(existing_content, new_content_arg, max_lines) ==
  LET existing_lines == stripped_lines(existing_content)
      new_lines == stripped_lines(new_content_arg)
      combined_lines == existing_lines \o unique_new_lines(existing_lines, new_lines)
  IN join(keep_most_recent(combined_lines, max_lines), "\n")

\* FileManager.merge_content: the value returned, whether an exception
\* escaped, and the files and backups left.  A file that cannot be read
\* gives existing_content = None, and None.split raises inside
\* _merge_content_strings.
merge_content(fs, store, file_path, new_content_arg, max_lines, t, env) ==
  LET backup == create_backup(fs, store, file_path, t, env.backup)
      existing_content == IF exists(fs, file_path)
                          THEN read_file_content(fs, file_path, env.read) ELSE <<>>
      merged_content == merge_content_strings(existing_content, new_content_arg, max_lines)
      written == write_file_content(fs, file_path, merged_content, t, env.write)
      backup_log == IF exists(fs, file_path) THEN <<"backup_created">> ELSE <<>>
      read_log == IF exists(fs, file_path) /\ ~env.read THEN <<"read_failed">> ELSE <<>>
  IN IF exists(fs, file_path) /\ backup.backup_path = None
     THEN [success |-> FALSE, exc |-> FALSE, files |-> fs, backups |-> store,
           log |-> <<"backup_failed">>]
     ELSE IF existing_content = None
     THEN [success |-> FALSE, exc |-> TRUE, files |-> fs, backups |-> backup.backups,
           log |-> backup_log \o read_log]
     ELSE [success |-> written.ok, exc |-> FALSE, files |-> written.files,
           backups |-> backup.backups,
           log |-> backup_log \o read_log \o write_log(written.ok)]

\* FileManager.validate_content (a flagged word is looked for among the
\* words of the content)
validate_content(content) ==
  /\ content # None
  /\ strip(content) # <<>>
  /\ len(strip(content)) >= min_content_length
  /\ \A i \in 1..Len(content) : lower_atom(content[i]) \notin inappropriate_words

\* BaseGenerator._deploy_content: merge_content or write_content on the
\* generator's output file; an exception is caught and gives False
deploy_content(fs, store, type, content, merge_existing, t, env) ==
  LET output_path == output_file(type)
      merged == merge_content(fs, store, output_path, content, default_max_lines, t, env)
      written == write_content(fs, output_path, content, t, env.write)
  IN IF merge_existing
     THEN [success |-> merged.success /\ ~merged.exc, exc |-> FALSE,
           files |-> merged.files, backups |-> merged.backups, log |-> merged.log]
     ELSE [success |-> written.ok, exc |-> FALSE, files |-> written.files,
           backups |-> store, log |-> write_log(written.ok)]

\* process_and_deploy line 105: `if not new_content` (None and the empty text)
no_content(content) == content = None \/ content = <<>>

\* a test that takes any value for content
no_processed_content_Never(processed) == FALSE

\* a test that takes the empty text for content
no_processed_content_NoneOnly(processed) == processed = None

\* process_and_deploy line 113: `if not processed_content`
no_processed_content(processed) == processed = None \/ processed = <<>>

\* BaseGenerator.process_and_deploy from the value generate_content
\* returned: False for no content and for content that is nothing once
\* processed, else the value of _deploy_content
process_and_deploy(fs, store, type, content, merge_existing, t, env) ==
  LET deploy(processed) ==
        LET deployed == deploy_content(fs, store, type, processed, merge_existing, t, env)
        IN IF no_processed_content(processed)
           THEN [success |-> FALSE, exc |-> FALSE, processed_content |-> processed,
                 files |-> fs, backups |-> store, log |-> <<>>]
           ELSE [success |-> deployed.success, exc |-> deployed.exc,
                 processed_content |-> processed, files |-> deployed.files,
                 backups |-> deployed.backups, log |-> deployed.log]
  IN CHOOSE r \in {deploy(processed) :
                    processed \in {IF no_content(content) THEN None
                                   ELSE process_content(content, type)}} : TRUE

\* ------------------------------------------------------ merges explored
\* lines of a destination file and of new content
LineA == <<"Line", Sp, "A">>
LineALower == <<"line", Sp, "a">>
LineB == <<"Line", Sp, "B">>
LineC == <<"Line", Sp, "C">>

\* "Line A\nLine B", and the same lines untrimmed around a blank line
ExistingAB == join(<<LineA, LineB>>, "\n")
ExistingUntrimmed == <<Sp>> \o LineA \o <<Sp, "\n", "\n">> \o LineB \o <<"\n">>
ExistingContents == {ExistingAB, ExistingUntrimmed}

\* "line a\nLine C", a line said twice, and untrimmed lines around a blank one
NewLowerAC == join(<<LineALower, LineC>>, "\n")
NewRepeated == join(<<LineC, LineC>>, "\n")
NewUntrimmed == <<"\t">> \o LineB \o <<"\n", Sp, "\n">> \o LineALower \o <<Sp>>
NewContents == {NewLowerAC, NewRepeated, NewUntrimmed}

\* the largest max_lines explored besides the default
MaxLines == 3
\* how many merge_content calls a behaviour has at most
MaxMerges == 2
MaxLinesArgs == 1..MaxLines \cup {default_max_lines}

\* the file the merges go to
MergeFile == output_file("crew_chatter")

\* a FileManager over a destination file that is missing or holds some lines
InitMerge ==
  /\ OPENAI_API_KEY = TRUE
  /\ ANTHROPIC_API_KEY = TRUE
  /\ PREFERRED_PROVIDER = "OPENAI"
  /\ openai_client = initialize_clients(OPENAI_API_KEY)
  /\ anthropic_client = initialize_clients(ANTHROPIC_API_KEY)
  /\ context_data = {}
  /\ rss_feeds = <<>>
  /\ InitCall
  /\ chatter_type = "none"
  /\ new_content = None
  /\ files \in {EmptyDict}
                \cup {MergeFile :> [content |-> e, mtime |-> 0] : e \in ExistingContents}

\* FileManager.merge_content(file_path, new_content, max_lines)
MergeContent(file_path, new_content_arg, max_lines, env) ==
  /\ pc = "idle"
  /\ runs < MaxMerges
  /\ \E r \in {merge_content(files, backups, file_path, new_content_arg, max_lines, now, env)} :
       /\ files' = r.files
       /\ backups' = r.backups
       /\ success' = r.success
       /\ deploy_log' = r.log
       /\ exc' = r.exc
  /\ deploy_args' = [file_path |-> file_path, new_content |-> new_content_arg,
                     max_lines |-> max_lines, merge_existing |-> TRUE]
  /\ runs' = runs + 1
  /\ op' = "merge_content"
  /\ UNCHANGED <<config_vars, run_vars, call_vars, personalization_vars, fetch_vars,
                 normalizer_vars, cache_dir, now>>

\* merges of new content into one destination file, the clock advancing
\* between them or not
NextMerge ==
  \/ runs < MaxMerges /\ Tick
  \/ \E new_content_arg \in NewContents, max_lines \in MaxLinesArgs, env \in DeployEnvs :
       MergeContent(MergeFile, new_content_arg, max_lines, env)

SpecMerge == InitMerge /\ [][NextMerge]_vars

\* ------------------------------------------------------ properties: merge
\* the content of a destination file, empty when the file is missing
ContentOf(fs, path) == IF path \in DOMAIN fs THEN fs[path].content ELSE <<>>

\* the non-blank lines of a text, trimmed
TrimmedLines(text) ==
  LET lines == LinesOf(text)
      NonBlank(line) == line # <<>>
  IN SelectSeq([i \in 1..Len(lines) |-> strip(lines[i])], NonBlank)

EqualIgnoringCase(a, b) == lower(a) = lower(b)

\* the lines of e, then the lines of n that equal no line of e ignoring case
CombinedLines(e, n) ==
  LET IsNew(line) == \A i \in 1..Len(TrimmedLines(e)) :
                       ~EqualIgnoringCase(line, TrimmedLines(e)[i])
  IN TrimmedLines(e) \o SelectSeq(TrimmedLines(n), IsNew)

\* the step is a merge_content call that returned True
MergeStep == op' = "merge_content" /\ success'
\* the state follows a merge_content call that returned True
Merged == op = "merge_content" /\ success

\* C16: merging the same new content with the same maximum into the file a
\* second time leaves the file content as the first merge left it
C16_MergeIdempotent ==
  [][(Merged /\ MergeStep /\ deploy_args' = deploy_args) =>
       ContentOf(files', deploy_args.file_path) = ContentOf(files, deploy_args.file_path)]_vars

\* C17: after merge_content with maximum M the file has at most M lines,
\* and when the existing lines followed by the new ones are more than M the
\* file holds the last M of them, in order
C17_AtMostMaxLinesOldestEvicted ==
  [][MergeStep =>
       LET path == deploy_args'.file_path
           M == deploy_args'.max_lines
           combined == CombinedLines(ContentOf(files, path), deploy_args'.new_content)
           after == LinesOf(ContentOf(files', path))
       IN /\ Len(after) <= M
          /\ Len(combined) > M =>
               after = SubSeq(combined, Len(combined) - M + 1, Len(combined))]_vars

\* "line a\nLine C" merged with maximum 2 into "Line A\nLine B": Line A is
\* evicted, the file holds "Line B\nLine C"
C17_Witness ==
  /\ Merged /\ runs = 1
  /\ deploy_args.new_content = NewLowerAC
  /\ deploy_args.max_lines = 2
  /\ \E b \in DOMAIN backups : backups[b].content = ExistingAB
  /\ ContentOf(files, MergeFile) = join(<<LineB, LineC>>, "\n")

\* C18: when the existing lines followed by the new ones are at most M, the
\* merged file is the non-blank trimmed lines of E in order, then the
\* non-blank trimmed lines of N that equal no line of E ignoring case, in
\* order; "line a\nLine C" into "Line A\nLine B" gives "Line A\nLine B\nLine C"
C18_MergeAppendsUniqueNewLines ==
  [][MergeStep =>
       LET path == deploy_args'.file_path
           E == ContentOf(files, path)
           N == deploy_args'.new_content
           combined == CombinedLines(E, N)
       IN /\ Len(combined) <= deploy_args'.max_lines =>
               ContentOf(files', path) = join(combined, "\n")
          /\ (E = ExistingAB /\ N = NewLowerAC /\ deploy_args'.max_lines >= 3) =>
               ContentOf(files', path) = join(<<LineA, LineB, LineC>>, "\n")]_vars

\* "line a\nLine C" merged with the default maximum into "Line A\nLine B"
C18_Witness ==
  /\ Merged /\ runs = 1
  /\ deploy_args.new_content = NewLowerAC
  /\ deploy_args.max_lines = default_max_lines
  /\ \E b \in DOMAIN backups : backups[b].content = ExistingAB
  /\ ContentOf(files, MergeFile) = join(<<LineA, LineB, LineC>>, "\n")

\* ------------------------------------------------ pipeline runs explored
\* texts a provider returns: a valid block of 41 characters, a valid block
\* of 55 characters, a valid block of 54 characters with a flagged word, and
\* a block that block validation removes
TextShort == TextOf(<<Block(<<SpeakerTag("Helm") \o <<Sp>> \o Words("Hello", "there")>>, TRUE)>>)
TextLong == TextOf(<<Block(<<LineTagged>>, TRUE)>>)
TextSpam ==
  TextOf(<<Block(<<SpeakerTag("Helm") \o <<Sp>> \o ContextTag("not-station")
                     \o <<Sp>> \o Words("Hello", "Spam")>>, TRUE)>>)
TextDropped == TextOf(<<Block(<<LineNoText>>, TRUE)>>)
DeployTexts == {TextShort, TextLong, TextSpam, TextDropped}
DeployResponses == {[raised |-> TRUE, text |-> <<>>]}
                   \cup {[raised |-> FALSE, text |-> t] : t \in DeployTexts}

\* the categories whose generator runs
DeployTypes == {"crew_chatter", "space_chatter"}

\* a generator over a crew chatter file that is missing or holds two lines
InitDeploy ==
  /\ OPENAI_API_KEY = TRUE
  /\ ANTHROPIC_API_KEY = TRUE
  /\ PREFERRED_PROVIDER = "OPENAI"
  /\ openai_client = initialize_clients(OPENAI_API_KEY)
  /\ anthropic_client = initialize_clients(ANTHROPIC_API_KEY)
  /\ context_data = {}
  /\ rss_feeds = <<>>
  /\ InitCall
  /\ chatter_type = "none"
  /\ new_content = None
  /\ files \in {EmptyDict, MergeFile :> [content |-> ExistingAB, mtime |-> 0]}

\* BaseGenerator.process_and_deploy(merge_existing) of the generator of a
\* category, from the return of its api_client.generate_content call on
\* (lines 99-125)
ProcessAndDeploy(type, merge_existing, env) ==
  /\ op = "generate_content" /\ pc = "idle"
  /\ ~call_args.include_personalization
  /\ \E r \in {process_and_deploy(files, backups, type, result, merge_existing, now, env)} :
       /\ processed_content' = r.processed_content
       /\ files' = r.files
       /\ backups' = r.backups
       /\ success' = r.success
       /\ deploy_log' = r.log
       /\ exc' = r.exc
  /\ chatter_type' = type
  /\ new_content' = result
  /\ deploy_args' = [file_path |-> output_file(type), new_content |-> processed_content',
                     max_lines |-> default_max_lines, merge_existing |-> merge_existing]
  /\ runs' = runs + 1
  /\ op' = "process_and_deploy"
  /\ UNCHANGED <<config_vars, run_vars, call_vars, personalization_vars, fetch_vars, cache_dir, now>>

\* one run of the pipeline of a category: the provider calls of
\* generate_content (the prompt already holds the personalization, lines
\* 82-85), then processing and deployment
NextDeploy ==
  \/ runs = 0 /\ op # "generate_content" /\ Tick
  \/ \E env \in QuietEnvs :
       /\ runs = 0 /\ op # "generate_content"
       /\ GenerateContentCall(NoneInt, FALSE, FALSE, FALSE, env)
  \/ TryProvider
  \/ \E response \in DeployResponses : GenerateAttempt(response)
  \/ \E type \in DeployTypes, merge_existing \in BOOLEAN, env \in DeployEnvs :
       ProcessAndDeploy(type, merge_existing, env)

SpecDeploy == InitDeploy /\ [][NextDeploy]_vars

\* ------------------------------------------------- properties: deployment
\* the step is the deployment part of a process_and_deploy call
DeployStep == op' = "process_and_deploy"

\* C19: in replace mode, when the destination file exists and the run
\* changes it, the backup store then holds a copy with the content the file
\* had before the write
C19_ReplaceBacksUpFirst ==
  [][(DeployStep /\ ~deploy_args'.merge_existing
      /\ deploy_args'.file_path \in DOMAIN files
      /\ files'[deploy_args'.file_path] # files[deploy_args'.file_path]) =>
       \E b \in DOMAIN backups' :
         /\ b[1] = deploy_args'.file_path
         /\ backups'[b].content = files[deploy_args'.file_path].content]_vars

\* C20: in replace and in merge mode the run changes the destination files
\* only if the content passes validate_content (non-empty once trimmed, at
\* least 50 characters, no flagged word), and content that fails it leaves
\* the files as they were and the run returns False
C20_ValidationGate ==
  [][DeployStep =>
       /\ files' # files => validate_content(processed_content')
       /\ ~validate_content(processed_content') => (files' = files /\ ~success')]_vars

\* every provider was called MAX_RETRIES times and every call raised or
\* replied with nothing
AllProvidersFailed ==
  /\ \A p \in Providers : HasKey(p) => CallsTo(p) = MAX_RETRIES
  /\ \A i \in 1..Len(api_log) : IsCall(i) => Failed(api_log[i])

\* C22: when every configured provider has failed on every retry,
\* process_and_deploy returns False, raises nothing, and leaves the
\* destination files and the backup store as they were
C22_AllProvidersFailNothingDeployed ==
  [][(DeployStep /\ AllProvidersFailed) =>
       /\ ~success' /\ ~exc'
       /\ files' = files /\ backups' = backups]_vars

\* both providers failed three times over an existing file; the run
\* returned False and the file is as it was
C22_Witness ==
  /\ op = "process_and_deploy"
  /\ AllProvidersFailed
  /\ CallsTo("OPENAI") = MAX_RETRIES /\ CallsTo("ANTHROPIC") = MAX_RETRIES
  /\ ~success
  /\ ContentOf(files, MergeFile) = ExistingAB
  /\ backups = EmptyDict

\* C23: when the normalizer leaves nothing of a generated text,
\* process_and_deploy returns False and the destination files and the backup
\* store stay as they were
C23_EmptyNormalizedNothingDeployed ==
  [][(DeployStep /\ new_content' # None /\ LinesOf(processed_content') = <<>>) =>
       /\ ~success'
       /\ files' = files /\ backups' = backups]_vars

\* the provider returned a block that block validation removes; the run in
\* merge mode returned False, with no backup and the file as it was
C23_Witness ==
  /\ op = "process_and_deploy"
  /\ new_content = TextDropped
  /\ processed_content = <<>>
  /\ deploy_args.merge_existing
  /\ ~success
  /\ ContentOf(files, MergeFile) = ExistingAB
  /\ backups = EmptyDict

\* C25: in merge mode, when backing up the existing destination file fails
\* or reading it fails, the deployment returns False, no exception escapes,
\* and the destination files are as they were
C25_BackupOrReadFailureAborts ==
  [][(DeployStep /\ deploy_args'.merge_existing
      /\ \E i \in 1..Len(deploy_log') : deploy_log'[i] \in {"backup_failed", "read_failed"}) =>
       /\ ~success' /\ ~exc'
       /\ files' = files]_vars

\* reading the existing file failed in a merge-mode run
C25_Witness ==
  /\ op = "process_and_deploy"
  /\ deploy_args.merge_existing
  /\ deploy_log = <<"backup_created", "read_failed">>
  /\ ~success /\ ~exc
  /\ ContentOf(files, MergeFile) = ExistingAB

\* backing the existing file up failed in a merge-mode run
C25_WitnessBackup ==
  /\ op = "process_and_deploy"
  /\ deploy_args.merge_existing
  /\ deploy_log = <<"backup_failed">>
  /\ ~success /\ ~exc
  /\ ContentOf(files, MergeFile) = ExistingAB

\* the call of the step made a backup copy
BackupStep == \E i \in 1..Len(deploy_log') : deploy_log'[i] = "backup_created"

\* C26: a successful create_backup leaves every copy the store held as it
\* was and adds one copy, also when the last copy was made in the same second
C26_BackupStoreAppendOnly ==
  [][(op' = "merge_content" /\ BackupStep) =>
       /\ \A b \in DOMAIN backups : b \in DOMAIN backups' /\ backups'[b] = backups[b]
       /\ Cardinality(DOMAIN backups') = Cardinality(DOMAIN backups) + 1]_vars

\* no line of the text is blank and no two lines are equal ignoring case
NoBlankNoDuplicate(text) ==
  LET lines == LinesOf(text) IN
    /\ \A i \in 1..Len(lines) : strip(lines[i]) # <<>>
    /\ \A i, j \in 1..Len(lines) : i # j => ~EqualIgnoringCase(lines[i], lines[j])

\* C27: a merge into a destination file that is missing or empty leaves a
\* content with no blank line and no two lines equal ignoring case, also
\* when the new content repeats a line (the first merge of every sequence
\* of merges that starts from a missing or empty file)
C27_MergedFileDeduplicated ==
  [][(op' = "merge_content" /\ ContentOf(files, MergeFile) = <<>>) =>
       NoBlankNoDuplicate(ContentOf(files', MergeFile))]_vars

\* the lines that are [example] markers
StartLines(lines) == {i \in 1..Len(lines) : IsStartLine(lines, i)}

\* C30: in the output of block validation every [example] line is followed
\* by a [/example] line before any further [example] line, and the lines
\* from the one to the other form a block that passes _is_valid_example
C30_OutputBlocksClosedAndValid ==
  (Normalized /\ processed_content # None) =>
    LET lines == LinesOf(processed_content) IN
      \A i \in StartLines(lines) :
        LET n == NextMarker(lines, i) IN
          /\ n <= Len(lines)
          /\ IsEndLine(lines, n)
          /\ is_valid_example(SubSeq(lines, i, n))

\* block validation kept a block and removed both an invalid closed block
\* and a block that is never closed
C30_Witness ==
  /\ Normalized
  /\ processed_content # None
  /\ StartLines(LinesOf(processed_content)) # {}
  /\ \E i, j \in StartLines(CleanedLines) :
       /\ IsTruncatedAt(CleanedLines, i)
       /\ ~IsTruncatedAt(CleanedLines, j)
       /\ ~is_valid_example(SubSeq(CleanedLines, j, NextMarker(CleanedLines, j)))

\* ------------------------------------------- the feed cache and its keys
\* feed URLs that differ in one character: a path separator or an underscore
UrlNewsPath == <<"h", ":", "/", "n", "/", "b">>
UrlNewsUnderscore == <<"h", ":", "/", "n", "_", "b">>
KeyUrls == {UrlNewsPath, UrlNewsUnderscore, UrlBlog}

\* the personalization files explored: two feed lines with different URLs
KeyFeeds ==
  {<<extract_rss_feed_info(FeedLine(FALSE, 0, p[1])),
     extract_rss_feed_info(FeedLine(FALSE, 0, p[2]))>> :
     p \in {q \in KeyUrls \X KeyUrls : q[1] # q[2]}}

\* what the fetch of each feed does; every cache write succeeds
KeyEnvs == [remote : [KeyUrls -> RemoteOutcomes], save : [KeyUrls -> {"ok"}]]

InitCacheKeys ==
  /\ OPENAI_API_KEY = TRUE
  /\ ANTHROPIC_API_KEY = TRUE
  /\ PREFERRED_PROVIDER = "OPENAI"
  /\ openai_client = initialize_clients(OPENAI_API_KEY)
  /\ anthropic_client = initialize_clients(ANTHROPIC_API_KEY)
  /\ context_data = {}
  /\ rss_feeds \in KeyFeeds
  /\ InitCall
  /\ InitGenerator

NextCacheKeys ==
  \/ Tick
  \/ \E env \in KeyEnvs : FetchRssContent(env)

SpecCacheKeys == InitCacheKeys /\ [][NextCacheKeys]_vars

\* the call of the step fetched feed u and wrote its entries to the cache
SavedFor(u) ==
  \E i \in EventsOf(fetch_log', u) :
    fetch_log'[i].source = "fetched" /\ ~fetch_log'[i].save_failed

\* the cache file of u is as it was before the step
SameEntry(u) ==
  LET f == get_cache_file_path(u) IN
    IF f \in DOMAIN cache_dir THEN f \in DOMAIN cache_dir' /\ cache_dir'[f] = cache_dir[f]
    ELSE f \notin DOMAIN cache_dir'

\* C28: the feed cache is keyed by feed URL: a fetch_rss_content call serves
\* feed B from the cache only when an entry of B was fresh before the call,
\* and writing the entry of feed A leaves the entry of every other feed B as
\* it was
C28_CacheKeyedByUrl ==
  [][FetchRan =>
       \A b \in KeyUrls :
         /\ FromCache(fetch_log', b) => load_cached_rss(cache_dir, b, now).ok
         /\ (~SavedFor(b) /\ \E a \in KeyUrls \ {b} : SavedFor(a)) => SameEntry(b)]_vars

\* ------------------------------------------- properties: cache file frame
\* the cache file f is created, replaced or removed by the step
FileChanged(f) ==
  \/ f \in DOMAIN cache_dir /\ f \notin DOMAIN cache_dir'
  \/ f \in DOMAIN cache_dir' /\ Changed(f)

\* the step fetched at least one entry of a feed whose cache file is f
FetchedInto(f) ==
  \E i \in 1..Len(fetch_log') :
    fetch_log'[i].source = "fetched" /\ get_cache_file_path(fetch_log'[i].url) = f

\* C29: a feed served from the cache keeps its cache file as it was; a cache
\* file changes only in a clear_rss_cache step or in a step that fetched at
\* least one entry of its feed; and an entry written at T is replaced only
\* at or after T + cache_duration
C29_CacheHitWritesNothing ==
  [][/\ \A u \in FeedUrls :
          FromCache(fetch_log', u) =>
            ~FileChanged(get_cache_file_path(u)) /\ ~FromNetwork(fetch_log', u)
     /\ \A f \in DOMAIN cache_dir \cup DOMAIN cache_dir' :
          FileChanged(f) =>
            \/ op' = "clear_rss_cache"
            \/ /\ FetchedInto(f)
               /\ (f \in DOMAIN cache_dir /\ ~cache_dir[f].corrupt) =>
                    now >= cache_dir[f].mtime + cache_duration]_vars

\* one call served a feed from an entry written earlier and still fresh, and
\* replaced the entry of another feed by a fresh fetch
C29_Witness ==
  /\ op = "fetch_rss_content"
  /\ \E i, j \in 1..Len(fetch_log) :
       LET hit == cache_dir[get_cache_file_path(fetch_log[i].url)]
           new == cache_dir[get_cache_file_path(fetch_log[j].url)]
       IN /\ fetch_log[i].source = "cache"
          /\ hit.mtime < now /\ now < hit.mtime + cache_duration
          /\ fetch_log[j].source = "fetched" /\ ~fetch_log[j].save_failed
          /\ new.mtime = now

\* ================================================================ rollback
\* the {chatter_type} of 'EDCoPilot.{chatter_type}.Custom.txt'
file_chatter_type(type) ==
  CASE type = "chit_chat" -> "ChitChat"
    [] type = "crew_chatter" -> "CrewChatter"
    [] type = "space_chatter" -> "SpaceChatter"
    [] type = "deep_space_chatter" -> "DeepSpaceChatter"

\* the parts of a destination file's name; the last part is Path.suffix and
\* the parts before it are Path.stem
name_parts(file_path) ==
  LET type == CHOOSE ty \in ChatterTypes : output_file(ty) = file_path
  IN <<"EDCoPilot", ".", file_chatter_type(type), ".", "Custom", ".txt">>

\* create_backup lines 89-92: f"{file_path.stem}_{timestamp}{file_path.suffix}"
backup_name(file_path, t) ==
  LET parts == name_parts(file_path) IN
    SubSeq(parts, 1, Len(parts) - 1) \o <<"_", ToString(t)>> \o <<parts[Len(parts)]>>

\* rollback_file line 292: f"EDCoPilot.{chatter_type}_*", the text before the *
backup_pattern(type) == <<"EDCoPilot", ".", file_chatter_type(type), "_">>

\* rollback_file line 293: self.backup_dir.glob(backup_pattern)
glob_backups(store, pattern) ==
  {b \in DOMAIN store : startswith(backup_name(b[1], b[2]), pattern)}

\* FileManager.rollback_file: the outcomes it can have (max() takes any of
\* the backups that share the latest modification time); copy_ok is whether
\* shutil.copy2 succeeds
rollback_file(fs, store, type, copy_ok) ==
  LET file_path == output_file(type)
      backup_files == glob_backups(store, backup_pattern(type))
      latest == {b \in backup_files :
                   \A c \in backup_files : store[c].mtime <= store[b].mtime}
  IN IF backup_files = {}
     THEN {[success |-> FALSE, files |-> fs, log |-> <<"no_backups">>]}
     ELSE IF ~copy_ok
     THEN {[success |-> FALSE, files |-> fs, log |-> <<"rollback_failed">>]}
     ELSE {[success |-> TRUE, files |-> (file_path :> store[b]) @@ fs,
            log |-> <<"restored">>] : b \in latest}

\* FileManager.rollback_file(chatter_type)
RollbackFile(type, copy_ok) ==
  /\ pc = "idle"
  /\ \E r \in rollback_file(files, backups, type, copy_ok) :
       /\ files' = r.files
       /\ success' = r.success
       /\ deploy_log' = r.log
  /\ deploy_args' = [NoDeployArgs EXCEPT !.file_path = output_file(type)]
  /\ exc' = FALSE
  /\ op' = "rollback_file"
  /\ UNCHANGED <<config_vars, run_vars, call_vars, personalization_vars, fetch_vars,
                 normalizer_vars, cache_dir, now, backups, runs>>

\* the merges a rollback follows: new lines into the file, the backup made
\* or failing
RollbackEnvs == {AllOk, [AllOk EXCEPT !.backup = FALSE]}

\* merges into one destination file and rollbacks of it
NextRollback ==
  \/ runs < MaxMerges /\ Tick
  \/ \E new_content_arg \in NewContents, env \in RollbackEnvs :
       MergeContent(MergeFile, new_content_arg, MaxLines, env)
  \/ \E copy_ok \in BOOLEAN : RollbackFile("crew_chatter", copy_ok)

SpecRollback == InitMerge /\ [][NextRollback]_vars

\* the backups of the destination file that create_backup has made
BackupsOf(file_path) == {b \in DOMAIN backups : b[1] = file_path}

\* C21: once create_backup has made a backup of the category's destination
\* file, rollback_file succeeds (its copy succeeding) and leaves the file
\* with the content of the backup with the latest modification time; with
\* no backup of the file it reports failure and leaves the file unchanged
C21_RollbackRestoresLatestBackup ==
  [][(op' = "rollback_file" /\ deploy_log' # <<"rollback_failed">>) =>
       LET f == deploy_args'.file_path IN
         IF BackupsOf(f) # {}
         THEN /\ success'
              /\ \E b \in BackupsOf(f) :
                   /\ \A c \in BackupsOf(f) : backups[c].mtime <= backups[b].mtime
                   /\ files'[f].content = backups[b].content
         ELSE ~success' /\ files' = files]_vars

\* ================================================================= main.py
\* the keys of EDCopilotUpdater.generators, in the order of the dict
generator_keys == <<"chit_chat", "space_chatter", "crew_chatter", "deep_space_chatter">>

\* what generator.process_and_deploy does for one file type: it returns True
\* or False, or raises
PipelineOutcomes == {"true", "false", "raise"}

\* a loop that lets the exception of a file type escape
generate_error_caught_Never(outcome) == FALSE

\* lines 204 and 254: `except Exception` around process_and_deploy
generate_error_caught(outcome) == outcome = "raise"

RunEvent(file_type, outcome) == [file_type |-> file_type, outcome |-> outcome]
NoRun == [results |-> EmptyDict, run_log |-> <<>>, exc |-> FALSE]

\* the loops of generate_specific_content (lines 178-209) and of
\* generate_all_content (lines 236-259) from file type i on; outcomes[i] is
\* what process_and_deploy does for file type i; only the first loop tests
\* for unknown file types.  st = [results, run_log, exc]
RECURSIVE generate_loop(_, _, _, _, _)
generate_loop(i, file_types, outcomes, check_known, st) ==
  IF i > Len(file_types) \/ st.exc THEN st
  ELSE LET file_type == file_types[i]
           known == \E k \in 1..Len(generator_keys) : generator_keys[k] = file_type
           outcome == outcomes[i]
           next ==
             IF check_known /\ ~known
             THEN [st EXCEPT !.results = (file_type :> FALSE) @@ @,
                             !.run_log = Append(@, RunEvent(file_type, "unknown"))]
             ELSE IF outcome = "raise"
             THEN IF generate_error_caught(outcome)
                  THEN [st EXCEPT !.results = (file_type :> FALSE) @@ @,
                                  !.run_log = Append(@, RunEvent(file_type, outcome))]
                  ELSE [st EXCEPT !.run_log = Append(@, RunEvent(file_type, outcome)),
                                  !.exc = TRUE]
             ELSE [st EXCEPT !.results = (file_type :> (outcome = "true")) @@ @,
                             !.run_log = Append(@, RunEvent(file_type, outcome))]
       IN generate_loop(i + 1, file_types, outcomes, check_known, next)

\* EDCopilotUpdater.generate_specific_content
generate_specific_content(file_types, outcomes) ==
  generate_loop(1, file_types, outcomes, TRUE, NoRun)

\* EDCopilotUpdater.generate_all_content
generate_all_content(outcomes) ==
  generate_loop(1, generator_keys, outcomes, FALSE, NoRun)

\* EDCopilotUpdater.run without prompt_only and generate_prompt_template:
\* False when validate_setup fails, else the loop over the file types and
\* success_count == total_count
run(files_arg, valid, outcomes) ==
  IF ~valid THEN [generated |-> NoRun, returned |-> FALSE]
  ELSE LET generated == IF files_arg # <<>>
                        THEN generate_specific_content(files_arg, outcomes)
                        ELSE generate_all_content(outcomes)
           success_count == Cardinality({k \in DOMAIN generated.results :
                                           generated.results[k]})
           total_count == Cardinality(DOMAIN generated.results)
       IN [generated |-> generated,
           returned |-> ~generated.exc /\ success_count = total_count]

\* how many file types --files names at most
MaxFiles == 2
\* the file types --files names: two generators and a name that is none
FileTypeArgs == {"crew_chatter", "space_chatter", "bogus"}
RECURSIVE SeqsUpTo(_, _)
SeqsUpTo(S, n) ==
  IF n = 0 THEN {<<>>}
  ELSE LET shorter == SeqsUpTo(S, n - 1) IN
         shorter \cup {Append(q, x) : q \in shorter, x \in S}
\* the file types a run goes through
RequestedOf(files_arg) == IF files_arg # <<>> THEN files_arg ELSE generator_keys

InitRun ==
  /\ OPENAI_API_KEY = TRUE
  /\ ANTHROPIC_API_KEY = TRUE
  /\ PREFERRED_PROVIDER = "OPENAI"
  /\ openai_client = initialize_clients(OPENAI_API_KEY)
  /\ anthropic_client = initialize_clients(ANTHROPIC_API_KEY)
  /\ context_data = {}
  /\ rss_feeds = <<>>
  /\ InitCall
  /\ InitGenerator

\* EDCopilotUpdater.run(specific_files=files_arg)
Run(files_arg, valid, outcomes) ==
  /\ op = "init"
  /\ \E r \in {run(files_arg, valid, outcomes)} :
       /\ results' = r.generated.results
       /\ run_log' = r.generated.run_log
       /\ exc' = r.generated.exc
       /\ run_result' = r.returned
  /\ specific_files' = files_arg
  /\ setup_valid' = valid
  /\ op' = "run"
  /\ UNCHANGED <<config_vars, call_vars, personalization_vars, fetch_vars,
                 normalizer_vars, deploy_vars, cache_dir, now>>

\* one run of the updater
SpecRun ==
  InitRun /\ [][\E files_arg \in SeqsUpTo(FileTypeArgs, MaxFiles), valid \in BOOLEAN :
                  \E outcomes \in [1..Len(RequestedOf(files_arg)) -> PipelineOutcomes] :
                    Run(files_arg, valid, outcomes)]_vars

\* the last entry of the run log for file type k
LastEvent(k) ==
  LET at == {i \in 1..Len(run_log) : run_log[i].file_type = k}
  IN run_log[CHOOSE i \in at : \A j \in at : j <= i]

\* C24: a run whose setup is valid goes through every requested file type
\* in order, whatever process_and_deploy returned or raised for the earlier
\* ones; no exception escapes; the result map has one boolean per requested
\* file type, true exactly when its pipeline returned True; and run returns
\* True exactly when every entry of the map is true
C24_CategoryIsolation ==
  (op = "run" /\ setup_valid) =>
    LET requested == RequestedOf(specific_files) IN
      /\ ~exc
      /\ Len(run_log) = Len(requested)
      /\ \A i \in 1..Len(requested) : run_log[i].file_type = requested[i]
      /\ DOMAIN results = {requested[i] : i \in 1..Len(requested)}
      /\ \A k \in DOMAIN results :
           results[k] \in BOOLEAN /\ results[k] = (LastEvent(k).outcome = "true")
      /\ run_result = (\A k \in DOMAIN results : results[k])

\* a run over all generators in which the first pipeline raised, the second
\* returned False and the last two returned True
C24_Witness ==
  /\ op = "run"
  /\ specific_files = <<>>
  /\ Len(run_log) = 4
  /\ run_log[1].outcome = "raise" /\ run_log[2].outcome = "false"
  /\ results[run_log[3].file_type] /\ results[run_log[4].file_type]
  /\ ~results[run_log[1].file_type]
  /\ ~run_result
====
